---------------------------- MODULE Spec2Model ----------------------------
(***************************************************************************)
(* A model of the skill scheduler of my-agent-bootstrap                    *)
(* (src/services/skill_scheduler.py): the normalizer/tokenizer, the skill  *)
(* index loader, the route hint parser, the four-phase ranking engine with *)
(* its read budget and lazy detail loading, and the diagnostics snapshot.  *)
(*                                                                         *)
(* Text is modelled character by character on TLA+ strings.  TLA+ strings  *)
(* are ASCII, so ten ASCII symbols encode ten CJK ideographs of the range  *)
(* U+4E00..U+9FFF (see CJK below); the punctuation of the model is         *)
(* ! ? . , the newline and the markdown emphasis marker *.  There is no    *)
(* square bracket, backtick or double quote, so the link, code-span and    *)
(* quoted-phrase rewrites of the source have nothing to act on.            *)
(***************************************************************************)
EXTENDS Integers, Sequences, FiniteSets, TLC

(***************************************************************************)
(* Characters.  The definitions marked "Python:" here and below are the    *)
(* operations of the language that the code calls (str, list, dict, int),  *)
(* on the alphabet of the model.                                           *)
(***************************************************************************)
\* Python: the letters and digits, in code point order.
LowerChars == "abcdefghijklmnopqrstuvwxyz"
UpperChars == "ABCDEFGHIJKLMNOPQRSTUVWXYZ"
DigitChars == "0123456789"
\* Ideographs, in code point order:
\*   % = U+5230   = = U+52A9   + = U+5354   | = U+5883   ^ = U+5F0F
\*   & = U+6B63   ~ = U+74B0   $ = U+7F72   @ = U+8ACB   # = U+90E8
CJKChars == "%=+|^&~$@#"
\* Every character of the model in code point order (Python compares
\* strings by code point).
CodeOrder == "\n !*,-." \o DigitChars \o "?" \o UpperChars \o "_" \o LowerChars \o CJKChars

\* Python: set(s) on str.
CharsOf(s) == {SubSeq(s, i, i) : i \in 1..Len(s)}
Lower == CharsOf(LowerChars)
Upper == CharsOf(UpperChars)
Digit == CharsOf(DigitChars)
CJK == CharsOf(CJKChars)
Chars == CharsOf(CodeOrder)

\* Python: ord(c), up to order; c.lower().
Ord == [c \in Chars |-> CHOOSE i \in 1..Len(CodeOrder) : SubSeq(CodeOrder, i, i) = c]
LowerOf == [c \in Chars |->
              IF c \in Upper
              THEN LET i == CHOOSE k \in 1..Len(UpperChars) : SubSeq(UpperChars, k, k) = c
                   IN SubSeq(LowerChars, i, i)
              ELSE c]

\* What str.split() and str.strip() take for whitespace.
Whitespace == {" ", "\n"}

\* Python: s[i - 1] and s[1:] on str.
Ch(s, i) == SubSeq(s, i, i)
Rest(s) == SubSeq(s, 2, Len(s))

\* Python: a < b on str.
RECURSIVE StrLess(_, _)
StrLess(a, b) ==
    IF a = "" THEN b # ""
    ELSE IF b = "" THEN FALSE
    ELSE IF Ch(a, 1) = Ch(b, 1) THEN StrLess(Rest(a), Rest(b))
    ELSE Ord[Ch(a, 1)] < Ord[Ch(b, 1)]

\* Python: a <= b on str.
StrLeq(a, b) == a = b \/ StrLess(a, b)

\* Python: a in q on str.
IsSubstring(a, q) ==
    \E i \in 1..(Len(q) - Len(a) + 1) : SubSeq(q, i, i + Len(a) - 1) = a

\* Python: str.lower().
RECURSIVE ToLower(_)
ToLower(s) == IF s = "" THEN "" ELSE LowerOf[Ch(s, 1)] \o ToLower(Rest(s))

\* Python: str.replace(c, "") for every c in drop.
RECURSIVE DropChars(_, _)
DropChars(s, drop) ==
    IF s = "" THEN ""
    ELSE (IF Ch(s, 1) \in drop THEN "" ELSE Ch(s, 1)) \o DropChars(Rest(s), drop)

\* Every character outside keep replaced by with.
RECURSIVE ReplaceOutside(_, _, _)
ReplaceOutside(s, keep, with) ==
    IF s = "" THEN ""
    ELSE (IF Ch(s, 1) \in keep THEN Ch(s, 1) ELSE with)
         \o ReplaceOutside(Rest(s), keep, with)

\* Python: str.split(): the maximal runs of non-whitespace characters.
RECURSIVE SplitWs(_, _)
SplitWs(s, cur) ==
    IF s = "" THEN (IF cur = "" THEN <<>> ELSE <<cur>>)
    ELSE IF Ch(s, 1) \in Whitespace
         THEN (IF cur = "" THEN <<>> ELSE <<cur>>) \o SplitWs(Rest(s), "")
         ELSE SplitWs(Rest(s), cur \o Ch(s, 1))

\* Python: sep.join(parts).
RECURSIVE Join(_, _)
Join(parts, sep) ==
    IF parts = <<>> THEN ""
    ELSE IF Len(parts) = 1 THEN parts[1]
    ELSE parts[1] \o sep \o Join(Tail(parts), sep)

\* Python: " ".join(text.split()).
CollapseWs(s) == Join(SplitWs(s, ""), " ")

\* Python: str.strip().
StripChars(s, chars) ==
    IF \A i \in 1..Len(s) : Ch(s, i) \in chars THEN ""
    ELSE LET a == CHOOSE i \in 1..Len(s) :
                    Ch(s, i) \notin chars /\ \A j \in 1..(i - 1) : Ch(s, j) \in chars
             b == CHOOSE i \in 1..Len(s) :
                    Ch(s, i) \notin chars /\ \A j \in (i + 1)..Len(s) : Ch(s, j) \in chars
         IN SubSeq(s, a, b)

Strip(s) == StripChars(s, Whitespace)

(***************************************************************************)
(* Normalizer / tokenizer                                                  *)
(***************************************************************************)
_strip_markdown(text) == CollapseWs(DropChars(text, {"*"}))

_normalize_phrase(text) ==
    LET stripped == _strip_markdown(text)
        lowered == ToLower(stripped)
        \* \w is letters, digits and underscore; the text is lowercase here.
        kept == ReplaceOutside(lowered, Lower \cup Upper \cup Digit \cup CJK \cup {"_", "-", " "}, " ")
        nounder == ReplaceOutside(kept, Chars \ {"_"}, " ")
    IN CollapseWs(nounder)

STOP_WORDS ==
    {"a", "an", "and", "are", "as", "at", "be", "before", "by", "do", "for",
     "from", "how", "i", "if", "in", "is", "it", "my", "of", "on", "or",
     "please", "the", "this", "to", "use", "when", "with", "you"}

\* The aliases written with ideographs outside CJK occur in no text of the
\* model and are left out: of the ideograph aliases only U+90E8 U+7F72 and
\* U+6B63 U+5F0F U+74B0 U+5883 (both of "deployment") can be written.
INTENT_TOKEN_ALIASES ==
    [deployment |-> {"deploy", "deployment", "release", "production", "pipeline", "#$", "&^~|"},
     planning |-> {"plan", "planning", "implement", "implementation", "how to"},
     environment |-> {"setup", "dependency", "dependencies", "module not found", "venv", "docker"},
     debugging |-> {"debug", "error", "exception", "crash", "bug"},
     review |-> {"review", "feedback", "comment"},
     evaluation |-> {"evaluate", "evaluation", "benchmark", "metrics"}]

\* The length of the longest prefix of s made of characters of cls.
RECURSIVE RunLen(_, _)
RunLen(s, cls) ==
    IF s = "" \/ Ch(s, 1) \notin cls THEN 0 ELSE 1 + RunLen(Rest(s), cls)

\* re.findall(r"[a-z0-9][a-z0-9\-]+|[U+4E00-U+9FFF]{2,}", s): leftmost,
\* greedy, non-overlapping.
RECURSIVE RawTokens(_)
RawTokens(s) ==
    IF s = "" THEN {}
    ELSE LET ascii == IF Ch(s, 1) \in Lower \cup Digit
                      THEN 1 + RunLen(Rest(s), Lower \cup Digit \cup {"-"})
                      ELSE 0
             cjk == RunLen(s, CJK)
         IN IF ascii >= 2
            THEN {SubSeq(s, 1, ascii)} \cup RawTokens(SubSeq(s, ascii + 1, Len(s)))
            ELSE IF cjk >= 2
            THEN {SubSeq(s, 1, cjk)} \cup RawTokens(SubSeq(s, cjk + 1, Len(s)))
            ELSE RawTokens(Rest(s))

IsAsciiToken(t) == \A i \in 1..Len(t) : Ch(t, i) \in Lower \cup Digit \cup {"-"}

_tokenize(text) ==
    LET normalized == _normalize_phrase(text)
        tokens == {t \in RawTokens(normalized) :
                     ~(IsAsciiToken(t) /\ (t \in STOP_WORDS \/ Len(t) < 2))}
        canon == {c \in DOMAIN INTENT_TOKEN_ALIASES :
                    \E alias \in INTENT_TOKEN_ALIASES[c] :
                        LET na == _normalize_phrase(alias)
                        IN na # "" /\ IsSubstring(na, normalized)}
    IN tokens \cup canon

(***************************************************************************)
(* Sorting.  list.sort(key=...) and sorted() are stable: insertion sort     *)
(* with the element put before the first one whose key is greater.  A key  *)
(* is a pair of integers; strings enter a key by their rank.               *)
(***************************************************************************)
\* Python: a < b on tuples of two integers.
KeyLess(a, b) == a[1] < b[1] \/ (a[1] = b[1] /\ a[2] < b[2])

\* Python: one insertion of the stable sort, and the sorted items.
InsertSorted(sorted, e) ==
    LET before == {i \in 1..Len(sorted) : KeyLess(e.key, sorted[i].key)}
        p == IF before = {} THEN Len(sorted) + 1
             ELSE CHOOSE i \in before : \A j \in before : i <= j
    IN SubSeq(sorted, 1, p - 1) \o <<e>> \o SubSeq(sorted, p, Len(sorted))

Items(sorted) == [k \in DOMAIN sorted |-> sorted[k].item]

\* s sorted by the keys, keys[k] the key of s[k].
StableSort(s, keys) ==
    LET sorted[k \in 0..Len(s)] ==
            IF k = 0 THEN <<>>
            ELSE InsertSorted(sorted[k - 1], [item |-> s[k], key |-> keys[k]])
    IN Items(sorted[Len(s)])

\* Python: seq[:n] for n >= 0.
Take(s, n) == SubSeq(s, 1, IF n < Len(s) THEN n ELSE Len(s))

\* Python: min(a, b), max(a, b), set(s) on a list.
Min(a, b) == IF a < b THEN a ELSE b
Max(a, b) == IF a > b THEN a ELSE b
Range(s) == {s[i] : i \in DOMAIN s}

(***************************************************************************)
(* The file system.  A descriptor file is described by what the parsers    *)
(* take from it: its directory (1 = skills, 2 = my-agent-skills), the name *)
(* of its parent directory, its own name, the frontmatter values and the   *)
(* list items of its "When to use this skill" section.                     *)
(***************************************************************************)
NoValue == "<none>"

FileTable ==
    <<[dir |-> 1, parent |-> "planning", fname |-> "SKILL.md",
       name |-> "planning-implementation", description |-> "Planning helper",
       items |-> <<"how to implement">>],
      [dir |-> 1, parent |-> "environment", fname |-> "SKILL.md",
       name |-> "managing-environment", description |-> "Environment helper",
       items |-> <<"install packages">>],
      [dir |-> 1, parent |-> "plans", fname |-> "SKILL.md",
       name |-> "Planning", description |-> "Roadmap helper",
       items |-> <<"draft a roadmap">>],
      [dir |-> 1, parent |-> "deploy-skill-0", fname |-> "SKILL.md",
       name |-> "deploy-skill-0", description |-> "Deploy helper for production release",
       items |-> <<"deploy flow trigger 0">>],
      [dir |-> 1, parent |-> "deploy-skill-1", fname |-> "SKILL.md",
       name |-> "deploy-skill-1", description |-> "Deploy helper for production release",
       items |-> <<"deploy flow trigger 1">>],
      [dir |-> 1, parent |-> "deploy-skill-2", fname |-> "SKILL.md",
       name |-> "deploy-skill-2", description |-> "Deploy helper for production release",
       items |-> <<"deploy to production">>],
      [dir |-> 1, parent |-> "deploy-skill-3", fname |-> "SKILL.md",
       name |-> "deploy-skill-3", description |-> "Deploy helper for production release",
       items |-> <<"deploy flow trigger 3">>],
      [dir |-> 2, parent |-> "cicd", fname |-> "SKILL.md",
       name |-> "managing-cicd-workflow", description |-> "Deploy and pipeline workflow helper",
       items |-> <<"deploy to production", "pipeline failed", "**deploy** to  production">>],
      [dir |-> 2, parent |-> "cicd", fname |-> "skill.md",
       name |-> "managing-cicd-workflow", description |-> "Deploy helper",
       items |-> <<"#$%&^~|", "pipeline failed">>],
      [dir |-> 2, parent |-> "review", fname |-> "skill.md",
       name |-> "handling-review", description |-> "Review helper",
       items |-> <<"when user asks to address review feedback">>],
      [dir |-> 2, parent |-> "Ship_It", fname |-> "skill.md",
       name |-> NoValue, description |-> NoValue,
       items |-> <<"ship it", "ship it now", "Ship it", "it now">>],
      [dir |-> 1, parent |-> "ex", fname |-> "SKILL.md",
       name |-> NoValue, description |-> NoValue,
       items |-> <<"export data">>],
      [dir |-> 1, parent |-> "s0", fname |-> "SKILL.md",
       name |-> NoValue, description |-> NoValue,
       items |-> <<"run s0">>],
      [dir |-> 1, parent |-> "s1", fname |-> "SKILL.md",
       name |-> NoValue, description |-> NoValue,
       items |-> <<"run s1">>],
      [dir |-> 1, parent |-> "s2", fname |-> "SKILL.md",
       name |-> NoValue, description |-> NoValue,
       items |-> <<"run s2">>],
      [dir |-> 1, parent |-> "s3", fname |-> "SKILL.md",
       name |-> NoValue, description |-> NoValue,
       items |-> <<"run s3">>],
      [dir |-> 1, parent |-> "s4", fname |-> "SKILL.md",
       name |-> NoValue, description |-> NoValue,
       items |-> <<"run s4">>],
      [dir |-> 1, parent |-> "s5", fname |-> "SKILL.md",
       name |-> NoValue, description |-> NoValue,
       items |-> <<"run s5">>],
      [dir |-> 1, parent |-> "s6", fname |-> "SKILL.md",
       name |-> NoValue, description |-> NoValue,
       items |-> <<"run s6">>],
      [dir |-> 1, parent |-> "s7", fname |-> "SKILL.md",
       name |-> NoValue, description |-> NoValue,
       items |-> <<"run s7">>],
      [dir |-> 1, parent |-> "s8", fname |-> "SKILL.md",
       name |-> NoValue, description |-> NoValue,
       items |-> <<"run s8">>],
      [dir |-> 1, parent |-> "s9", fname |-> "SKILL.md",
       name |-> NoValue, description |-> NoValue,
       items |-> <<"8 s9">>],
      [dir |-> 2, parent |-> "maxed", fname |-> "SKILL.md",
       name |-> "maxed", description |-> "aa bb cc dd ee ff gg hh ii jj kk",
       items |-> <<"aa bb", "cc dd", "ee ff", "gg hh">>],
      [dir |-> 2, parent |-> "q4", fname |-> "SKILL.md",
       name |-> NoValue, description |-> NoValue,
       items |-> <<"zz yy", "yy xx", "xx ww", "zz yy xx">>]>>

Files == DOMAIN FileTable
Directories == {1, 2}

\* A line of a rules document that starts with "-" and holds at least one
\* backtick span: the text left of the arrow, and the spans.
RuleDocs ==
    [none |-> <<>>,
     deploy |-> <<[left |-> "- **Deployment** ", refs |-> <<"CICD-skills">>],
                  [left |-> "- **Release, Pipeline** ", refs |-> <<"deploy", "cicd">>]>>,
     review |-> <<[left |-> "- **Feedback, Requests** ", refs |-> <<"handling-review">>],
                  [left |-> "- ** ** ", refs |-> <<"planning">>]>>,
     maxed |-> <<[left |-> "- **Aa** ", refs |-> <<"maxed">>]>>]

\* The runs of the model: the descriptor files, the skill directories that
\* exist, the rules document (hasRules: it exists), the task texts the caller
\* asks the engine to route, and the files that may become unreadable.
Corpora ==
    {[files |-> {1, 2, 3}, dirs |-> {1}, rules |-> "none", hasRules |-> FALSE,
      asks |-> {"", "random text without known keywords", "install packages", "!!!"},
      fragile |-> {2}],
     [files |-> {4, 5, 6, 7}, dirs |-> {1}, rules |-> "none", hasRules |-> FALSE,
      asks |-> {"  ", "Please deploy to production", "deploy pipeline failed"},
      fragile |-> {5}],
     [files |-> {6, 8, 9, 10}, dirs |-> {1, 2}, rules |-> "deploy", hasRules |-> TRUE,
      asks |-> {"Can you help me deploy to production now?", "@+=#$%&^~|",
                "deploy pipeline failed", "Ship it now, address review feedback"},
      fragile |-> {8}],
     [files |-> {1, 2, 10, 11}, dirs |-> {1, 2}, rules |-> "review", hasRules |-> TRUE,
      asks |-> {"  ", "Ship it now, address review feedback", "install packages",
                "random text without known keywords"},
      fragile |-> {11}],
     [files |-> {2, 12}, dirs |-> {1}, rules |-> "none", hasRules |-> FALSE,
      asks |-> {"next install packages"},
      fragile |-> {12}],
     [files |-> 13..22, dirs |-> {1}, rules |-> "none", hasRules |-> FALSE,
      asks |-> {"s0 s1 s2 s3 s4 s5 s6 s7 s8 s9", "s9", "zz top"},
      fragile |-> {14}],
     [files |-> {23, 24}, dirs |-> {2}, rules |-> "maxed", hasRules |-> TRUE,
      asks |-> {"maxed aa bb cc dd ee ff gg hh ii jj kk", "zz yy xx ww"},
      fragile |-> {23}]}

(***************************************************************************)
(* Skill index loader and route hint parser                                *)
(***************************************************************************)
\* Python: dict.get(key, default).
Get(d, key, default) == IF key \in DOMAIN d THEN d[key] ELSE default

\* The frontmatter of file f as a dictionary: the keys present, each value
\* stripped.
_parse_frontmatter(f) ==
    [k \in {k \in {"name", "description"} : FileTable[f][k] # NoValue} |->
        Strip(FileTable[f][k])]

\* An index loader that reads the triggers of file f too.
_parse_skill_index_with_triggers(f) ==
    LET frontmatter == _parse_frontmatter(f)
        parent == FileTable[f].parent
        normname == _normalize_phrase(Get(frontmatter, "name", ""))
        identifier == IF normname # "" THEN normname ELSE ToLower(parent)
        display_name == Strip(Get(frontmatter, "name", parent))
        description == Strip(Get(frontmatter, "description", ""))
        aliases == {identifier, _normalize_phrase(parent), _normalize_phrase(display_name)}
    IN [identifier |-> identifier,
        display_name |-> display_name,
        description |-> description,
        triggers |-> FileTable[f].items,
        path |-> f,
        source_directory |-> FileTable[f].dir,
        aliases |-> {alias \in aliases : alias # ""},
        keywords |-> _tokenize(Join(<<identifier, display_name, description>>, " ")),
        details_loaded |-> FALSE]

\* The SkillDefinition built from the head of file f (the caller handles
\* the OSError of an unreadable file).
_parse_skill_index(f) ==
    LET frontmatter == _parse_frontmatter(f)
        parent == FileTable[f].parent
        normname == _normalize_phrase(Get(frontmatter, "name", ""))
        identifier == IF normname # "" THEN normname ELSE ToLower(parent)
        display_name == Strip(Get(frontmatter, "name", parent))
        description == Strip(Get(frontmatter, "description", ""))
        aliases == {identifier, _normalize_phrase(parent), _normalize_phrase(display_name)}
    IN [identifier |-> identifier,
        display_name |-> display_name,
        description |-> description,
        triggers |-> <<>>,
        path |-> f,
        source_directory |-> FileTable[f].dir,
        aliases |-> {alias \in aliases : alias # ""},
        keywords |-> _tokenize(Join(<<identifier, display_name, description>>, " ")),
        details_loaded |-> FALSE]

\* Order-preserving removal of duplicates, each entry stripped.
RECURSIVE Dedupe(_, _)
Dedupe(triggers, seen) ==
    IF triggers = <<>> THEN <<>>
    ELSE LET normalized == Strip(Head(triggers))
         IN IF normalized = "" \/ normalized \in seen
            THEN Dedupe(Tail(triggers), seen)
            ELSE <<normalized>> \o Dedupe(Tail(triggers), seen \cup {normalized})

RECURSIVE CleanItems(_)
CleanItems(items) ==
    IF items = <<>> THEN <<>>
    ELSE LET cleaned_item == _strip_markdown(Head(items))
         IN (IF Head(items) # "" /\ cleaned_item # "" THEN <<cleaned_item>> ELSE <<>>)
            \o CleanItems(Tail(items))

\* The triggers of the full content of file f.
_extract_triggers(f) == Dedupe(CleanItems(FileTable[f].items), {})

\* Python: str.lstrip(chars).
RECURSIVE LStrip(_, _)
LStrip(s, chars) ==
    IF s # "" /\ Ch(s, 1) \in chars THEN LStrip(Rest(s), chars) ELSE s

RECURSIVE MapLowerStrip(_)
MapLowerStrip(refs) ==
    IF refs = <<>> THEN <<>>
    ELSE <<ToLower(Strip(Head(refs)))>> \o MapLowerStrip(Tail(refs))

\* The RouteHints of a rules document.  The whole line is the left side, the
\* arrow and the backtick spans separated by commas: under _tokenize the
\* arrow, the commas and the backticks are separators.
RECURSIVE _parse_global_rules(_)
_parse_global_rules(lines) ==
    IF lines = <<>> THEN <<>>
    ELSE LET line == Head(lines)
             refs == MapLowerStrip(line.refs)
             label == _strip_markdown(Strip(LStrip(Strip(line.left), {"-", " "})))
             from_label == _tokenize(label)
             keywords == IF from_label # {} THEN from_label
                         ELSE _tokenize(line.left \o " " \o Join(line.refs, " "))
         IN (IF refs = <<>> THEN <<>>
             ELSE <<[label |-> label, skill_refs |-> refs, keywords |-> keywords]>>)
            \o _parse_global_rules(Tail(lines))

VARIABLES
    corpus,                     \* the file system the engine reads
    parsed,                     \* what the parsers return on its files and texts
    unreadable,                 \* the files whose open raises OSError
    fs_changes,                 \* how often the file system has changed
    max_detailed_reads,         \* self.max_detailed_reads
    skills,                     \* self.skills
    route_hints,                \* self.route_hints
    last_schedule_diagnostics,  \* self.last_schedule_diagnostics
    _loaded,                    \* self._loaded
    last,                       \* the last call: its arguments and what it returned
    loads,                      \* the last two load() calls: file system, report, registry
    cli,                        \* the run of the scheduler CLI: arguments, exit code, output
    compile_env,                \* bundle compiler: the policy file and the adapter templates
    compiled,                   \* bundle compiler: the call, what it raised, the files written
    threads                     \* two threads calling schedule(): where each call is

vars == <<corpus, parsed, unreadable, fs_changes, max_detailed_reads, skills, route_hints,
          last_schedule_diagnostics, _loaded, last, loads, cli,
          compile_env, compiled, threads>>

\* What the parsers, the normalizer and the tokenizer return on the files of
\* fs and on the texts the engine passes them while routing (the triggers, the
\* hint references, the task texts), and the order of the identifiers, aliases
\* and tokens.  The contents of the files never change, so this is fixed when
\* the engine is built and each value is computed once.
RankIn(strings, a) == Cardinality({b \in strings : StrLess(b, a)})

\* Path order: the parts of the path, compared one by one.
PathKey(f) ==
    <<RankIn({FileTable[g].parent : g \in Files}, FileTable[f].parent),
      RankIn({FileTable[g].fname : g \in Files}, FileTable[f].fname)>>

ParsedTexts(asks, indexed, triggers, trigger_tokens, hints, tokens) ==
    [indexed |-> indexed,
     triggers |-> triggers,
     trigger_tokens |-> trigger_tokens,
     hints |-> hints,
     tokens |-> tokens,
     lowered |-> [t \in asks |-> ToLower(t)],
     stripped |-> [t \in asks |-> Strip(t)],
     path_key |-> [f \in DOMAIN indexed |-> PathKey(f)],
     normalized |->
        [t \in UNION {Range(triggers[f]) : f \in DOMAIN triggers}
               \cup UNION {Range(hints[h].skill_refs) : h \in DOMAIN hints}
               \cup asks |-> _normalize_phrase(t)],
     rank |->
        [a \in UNION {indexed[f].aliases \cup indexed[f].keywords
                         \cup {indexed[f].identifier} \cup trigger_tokens[f] :
                      f \in DOMAIN indexed}
               \cup UNION {tokens[t] : t \in asks} |->
           RankIn(UNION {indexed[f].aliases \cup indexed[f].keywords
                            \cup {indexed[f].identifier} \cup trigger_tokens[f] :
                         f \in DOMAIN indexed}
                  \cup UNION {tokens[t] : t \in asks}, a)]]

ParsedTriggers(fs, triggers) ==
    ParsedTexts(fs.asks,
                [f \in fs.files |-> _parse_skill_index(f)],
                triggers,
                [f \in fs.files |-> _tokenize(Join(triggers[f], " "))],
                IF fs.hasRules THEN _parse_global_rules(RuleDocs[fs.rules]) ELSE <<>>,
                [t \in fs.asks |-> _tokenize(t)])

Parsed(fs) == ParsedTriggers(fs, [f \in fs.files |-> _extract_triggers(f)])

\* Python: a < b on the identifiers, aliases and tokens of the run.
Less(a, b) == parsed.rank[a] < parsed.rank[b]

PathKeys(files) == [k \in DOMAIN files |-> parsed.path_key[files[k]]]

\* Python: list(S) on a set, in some order.
RECURSIVE SetToSeq(_)
SetToSeq(S) == IF S = {} THEN <<>>
               ELSE LET e == CHOOSE e \in S : TRUE IN <<e>> \o SetToSeq(S \ {e})

\* sorted(path for path in directory.rglob("*") if ... == "skill.md")
SortByPath(files) == StableSort(files, PathKeys(files))

SkillFiles(fs, directory) ==
    SortByPath(SetToSeq({f \in fs.files : FileTable[f].dir = directory}))

RECURSIVE ParseAll(_, _)
ParseAll(files, unread) ==
    IF files = <<>> THEN <<>>
    ELSE (IF Head(files) \in unread THEN <<>> ELSE <<parsed.indexed[Head(files)]>>)
         \o ParseAll(Tail(files), unread)

\* SkillScheduler.load: the registry, the hints and the LoadReport.
RECURSIVE LoadDirs(_, _, _)
LoadDirs(directories, fs, unread) ==
    IF directories = <<>> THEN <<>>
    ELSE LET directory == Head(directories)
         IN (IF directory \notin fs.dirs THEN <<>>
             ELSE ParseAll(SkillFiles(fs, directory), unread))
            \o LoadDirs(Tail(directories), fs, unread)

skill_directories == <<1, 2>>

\* Python: sorted(S) for a set of strings.
RECURSIVE SortedStrings(_)
SortedStrings(S) ==
    IF S = {} THEN <<>>
    ELSE LET m == CHOOSE a \in S : \A b \in S : a = b \/ Less(a, b)
         IN <<m>> \o SortedStrings(S \ {m})

(***************************************************************************)
(* Diagnostics                                                             *)
(***************************************************************************)
\* ScheduleDiagnostics(max_reads=m)
ScheduleDiagnostics(m) ==
    [max_detailed_reads |-> m,
     detailed_reads_used |-> 0,
     initial_ranked_candidates |-> 0,
     initial_unread_due_to_limit |-> 0,
     second_pass_ranked_candidates |-> 0,
     second_pass_unread_due_to_limit |-> 0,
     skipped_skill_ids |-> <<>>,
     second_pass_used |-> FALSE]

\* ScheduleDiagnostics.to_dict: the two derived entries.
skipped_due_to_limit_total(d) ==
    d.initial_unread_due_to_limit + d.second_pass_unread_due_to_limit
\* A guardrail flag that looks at Phase 2 alone.
guardrail_triggered_initial(d) == d.initial_unread_due_to_limit > 0

guardrail_triggered(d) == skipped_due_to_limit_total(d) > 0

SAMPLE_CAP == 8

(***************************************************************************)
(* Ranking engine                                                          *)
(***************************************************************************)
\* _load_skill_details without its first two lines: the details of a skill
\* are read again on every visit.
_load_skill_details_unmemoized(registry, i, unread) ==
    LET skill == registry[i]
    IN IF skill.path \in unread
       THEN [skills |-> [registry EXCEPT ![i].details_loaded = TRUE],
             loaded_now |-> FALSE, read |-> TRUE]
       ELSE [skills |-> [registry EXCEPT
                           ![i].triggers = parsed.triggers[skill.path],
                           ![i].keywords = @ \cup parsed.trigger_tokens[skill.path],
                           ![i].details_loaded = TRUE],
             loaded_now |-> TRUE, read |-> TRUE]

\* _load_skill_details with an except branch that leaves the flag unset.
_load_skill_details_retrying(registry, i, unread) ==
    LET skill == registry[i]
    IN IF skill.details_loaded
       THEN [skills |-> registry, loaded_now |-> FALSE, read |-> FALSE]
       ELSE IF skill.path \in unread
       THEN [skills |-> registry, loaded_now |-> FALSE, read |-> TRUE]
       ELSE [skills |-> [registry EXCEPT
                           ![i].triggers = parsed.triggers[skill.path],
                           ![i].keywords = @ \cup parsed.trigger_tokens[skill.path],
                           ![i].details_loaded = TRUE],
             loaded_now |-> TRUE, read |-> TRUE]

\* SkillScheduler._load_skill_details on the skill at index i of the
\* registry: the registry afterwards and the value returned.
_load_skill_details(registry, i, unread) ==
    LET skill == registry[i]
    IN IF skill.details_loaded
       THEN [skills |-> registry, loaded_now |-> FALSE, read |-> FALSE]
       ELSE IF skill.path \in unread
       THEN [skills |-> [registry EXCEPT ![i].details_loaded = TRUE],
             loaded_now |-> FALSE, read |-> TRUE]
       ELSE [skills |-> [registry EXCEPT
                           ![i].triggers = parsed.triggers[skill.path],
                           ![i].keywords = @ \cup parsed.trigger_tokens[skill.path],
                           ![i].details_loaded = TRUE],
             loaded_now |-> TRUE, read |-> TRUE]

\* The triggers of a skill that match the normalized query, in order.
TriggerHits(skill, normalized_query) ==
    SelectSeq(skill.triggers,
              LAMBDA trigger :
                 LET normalized_trigger == parsed.normalized[trigger]
                 IN Len(normalized_trigger) >= 2
                    /\ IsSubstring(normalized_trigger, normalized_query))

_ref_matches_skill(ref, skill) ==
    LET normalized_ref == parsed.normalized[ref]
    IN IF normalized_ref = "" THEN FALSE
       ELSE IF normalized_ref \in skill.aliases THEN TRUE
       ELSE IF \E alias \in skill.aliases :
                  IsSubstring(normalized_ref, alias) \/ IsSubstring(alias, normalized_ref)
       THEN TRUE
       ELSE normalized_ref = skill.identifier

ALIAS_SCORE == 80
KEYWORD_WEIGHT == 4
KEYWORD_CAP == 40
HINT_SCORE == 35
TRIGGER_WEIGHT == 25
TRIGGER_CAP == 75
FALLBACK_SCORE == 1

\* A Phase 1 that adds the hint bonus for every matching hint.
Phase1ScoreEveryHint(skill, query, query_tokens, hints) ==
    LET alias_hits == SortedStrings({alias \in skill.aliases :
                                       Len(alias) >= 3 /\ IsSubstring(alias, query)})
        keyword_overlap == SortedStrings(query_tokens \cap skill.keywords)
        matching == {h \in DOMAIN hints :
                       /\ query_tokens \cap hints[h].keywords # {}
                       /\ \E r \in DOMAIN hints[h].skill_refs :
                             _ref_matches_skill(hints[h].skill_refs[r], skill)}
    IN [score |-> (IF alias_hits # <<>> THEN ALIAS_SCORE ELSE 0)
                  + (IF keyword_overlap # <<>>
                     THEN Min(KEYWORD_CAP, Len(keyword_overlap) * KEYWORD_WEIGHT) ELSE 0)
                  + HINT_SCORE * Cardinality(matching),
        reasons |-> (IF alias_hits # <<>> THEN <<<<"task mentions", alias_hits[1]>>>> ELSE <<>>)
                    \o (IF keyword_overlap # <<>>
                        THEN <<<<"keyword overlap", Join(Take(keyword_overlap, 4), ", ")>>>>
                        ELSE <<>>)
                    \o [h \in 1..Cardinality(matching) |-> <<"global rule", "">>]]

\* Phase 1 for one skill: its score and reasons.
Phase1Score(skill, query, query_tokens, hints) ==
    LET alias_hits == SortedStrings({alias \in skill.aliases :
                                       Len(alias) >= 3 /\ IsSubstring(alias, query)})
        keyword_overlap == SortedStrings(query_tokens \cap skill.keywords)
        matching == {h \in DOMAIN hints :
                       /\ query_tokens \cap hints[h].keywords # {}
                       /\ \E r \in DOMAIN hints[h].skill_refs :
                             _ref_matches_skill(hints[h].skill_refs[r], skill)}
        first == CHOOSE h \in matching : \A g \in matching : h <= g
    IN [score |-> (IF alias_hits # <<>> THEN ALIAS_SCORE ELSE 0)
                  + (IF keyword_overlap # <<>>
                     THEN Min(KEYWORD_CAP, Len(keyword_overlap) * KEYWORD_WEIGHT) ELSE 0)
                  + (IF matching # {} THEN HINT_SCORE ELSE 0),
        reasons |-> (IF alias_hits # <<>> THEN <<<<"task mentions", alias_hits[1]>>>> ELSE <<>>)
                    \o (IF keyword_overlap # <<>>
                        THEN <<<<"keyword overlap", Join(Take(keyword_overlap, 4), ", ")>>>>
                        ELSE <<>>)
                    \o (IF matching # {} THEN <<<<"global rule", hints[first].label>>>> ELSE <<>>)]

\* The sort key with the identifier descending.
DecisionKeyDescending(registry, d) ==
    <<0 - d.score, 0 - parsed.rank[registry[d.skill].identifier]>>

\* The sort key of every sorted decision list: (-score, identifier).  A
\* decision names its skill by its index in the registry.
DecisionKey(registry, d) == <<0 - d.score, parsed.rank[registry[d.skill].identifier]>>

SortDecisions(registry, decisions) ==
    StableSort(decisions, [k \in DOMAIN decisions |-> DecisionKey(registry, decisions[k])])

\* The Phase 1 candidates, in registry order.
RECURSIVE Preliminary(_, _, _, _, _)
Preliminary(registry, i, query, query_tokens, hints) ==
    IF i > Len(registry) THEN <<>>
    ELSE LET s == Phase1Score(registry[i], query, query_tokens, hints)
         IN (IF s.score > 0
             THEN <<[skill |-> i, score |-> s.score, reasons |-> s.reasons]>>
             ELSE <<>>)
            \o Preliminary(registry, i + 1, query, query_tokens, hints)

\* Phase 2 for one candidate with a read that costs no budget.
Phase2RefineUncharged(st, candidate, ld, trigger_hits) ==
    [read_budget |-> st.read_budget,
     skills |-> ld.skills,
     diagnostics |->
        IF ld.loaded_now
        THEN [st.diagnostics EXCEPT !.detailed_reads_used = @ + 1]
        ELSE st.diagnostics,
     decisions |-> Append(st.decisions,
        [skill |-> candidate.skill,
         score |-> candidate.score
                   + (IF trigger_hits # <<>>
                      THEN Min(TRIGGER_CAP, Len(trigger_hits) * TRIGGER_WEIGHT)
                      ELSE 0),
         reasons |-> candidate.reasons
                     \o (IF trigger_hits # <<>>
                         THEN <<<<"trigger match", trigger_hits[1]>>>> ELSE <<>>)]),
     charged |-> IF ld.loaded_now THEN st.charged \cup {candidate.skill} ELSE st.charged,
     attempted |-> IF ld.read THEN st.attempted \cup {candidate.skill} ELSE st.attempted]

\* A Phase 2 whose trigger bonus has no cap.
Phase2RefineUncapped(st, candidate, ld, trigger_hits) ==
    [read_budget |-> IF ld.loaded_now THEN st.read_budget - 1 ELSE st.read_budget,
     skills |-> ld.skills,
     diagnostics |->
        IF ld.loaded_now
        THEN [st.diagnostics EXCEPT !.detailed_reads_used = @ + 1]
        ELSE st.diagnostics,
     decisions |-> Append(st.decisions,
        [skill |-> candidate.skill,
         score |-> candidate.score + Len(trigger_hits) * TRIGGER_WEIGHT,
         reasons |-> candidate.reasons
                     \o (IF trigger_hits # <<>>
                         THEN <<<<"trigger match", trigger_hits[1]>>>> ELSE <<>>)]),
     charged |-> IF ld.loaded_now THEN st.charged \cup {candidate.skill} ELSE st.charged,
     attempted |-> IF ld.read THEN st.attempted \cup {candidate.skill} ELSE st.attempted]

\* Phase 2 for one candidate.  st: the read budget left, the registry, the
\* diagnostics and the decisions so far, and the registry read in this call.
\* The candidate is visited with budget left: ld is what loading its details
\* returned, trigger_hits its matching triggers.
Phase2Refine(st, candidate, ld, trigger_hits) ==
    [read_budget |-> IF ld.loaded_now THEN st.read_budget - 1 ELSE st.read_budget,
     skills |-> ld.skills,
     diagnostics |->
        IF ld.loaded_now
        THEN [st.diagnostics EXCEPT !.detailed_reads_used = @ + 1]
        ELSE st.diagnostics,
     decisions |-> Append(st.decisions,
        [skill |-> candidate.skill,
         score |-> candidate.score
                   + (IF trigger_hits # <<>>
                      THEN Min(TRIGGER_CAP, Len(trigger_hits) * TRIGGER_WEIGHT)
                      ELSE 0),
         reasons |-> candidate.reasons
                     \o (IF trigger_hits # <<>>
                         THEN <<<<"trigger match", trigger_hits[1]>>>> ELSE <<>>)]),
     charged |-> IF ld.loaded_now THEN st.charged \cup {candidate.skill} ELSE st.charged,
     attempted |-> IF ld.read THEN st.attempted \cup {candidate.skill} ELSE st.attempted]

\* A Phase 2 that loads the details and does not look at the triggers.
Phase2LoadNoTriggers(st, candidate, ld, normalized_query) ==
    Phase2Refine(st, candidate, ld, <<>>)

Phase2Load(st, candidate, ld, normalized_query) ==
    Phase2Refine(st, candidate, ld,
                 TriggerHits(ld.skills[candidate.skill], normalized_query))

\* A skip that adds every unread candidate to the sample.
Phase2SkipUncapped(st, candidate) ==
    [st EXCEPT
       !.diagnostics =
          IF ~st.skills[candidate.skill].details_loaded
          THEN [@ EXCEPT
                  !.initial_unread_due_to_limit = @ + 1,
                  !.skipped_skill_ids =
                     Append(@, st.skills[candidate.skill].identifier)]
          ELSE @,
       !.decisions = Append(@, candidate)]

\* A candidate visited with no budget left that is dropped from the decisions.
Phase2SkipDropped(st, candidate) ==
    [st EXCEPT
       !.diagnostics =
          IF ~st.skills[candidate.skill].details_loaded
          THEN [@ EXCEPT
                  !.initial_unread_due_to_limit = @ + 1,
                  !.skipped_skill_ids =
                     IF Len(@) < SAMPLE_CAP
                     THEN Append(@, st.skills[candidate.skill].identifier) ELSE @]
          ELSE @]

\* The candidate is visited with no budget left.
Phase2Skip(st, candidate) ==
    [st EXCEPT
       !.diagnostics =
          IF ~st.skills[candidate.skill].details_loaded
          THEN [@ EXCEPT
                  !.initial_unread_due_to_limit = @ + 1,
                  !.skipped_skill_ids =
                     IF Len(@) < SAMPLE_CAP
                     THEN Append(@, st.skills[candidate.skill].identifier) ELSE @]
          ELSE @,
       !.decisions = Append(@, [skill |-> candidate.skill,
                                score |-> candidate.score,
                                reasons |-> candidate.reasons])]

\* A Phase 2 that looks at the triggers of every candidate whose details are
\* loaded, budget or not.
Phase2StepRefinesLoaded(st, candidate, normalized_query, unread) ==
    IF st.read_budget > 0 \/ st.skills[candidate.skill].details_loaded
    THEN Phase2Load(st, candidate,
                    _load_skill_details(st.skills, candidate.skill, unread),
                    normalized_query)
    ELSE Phase2Skip(st, candidate)

Phase2Step(st, candidate, normalized_query, unread) ==
    IF st.read_budget > 0
    THEN Phase2Load(st, candidate,
                    _load_skill_details(st.skills, candidate.skill, unread),
                    normalized_query)
    ELSE Phase2Skip(st, candidate)

\* A Phase 2 that walks the candidates from the last to the first.
Phase2Backwards(st0, preliminary, normalized_query, unread) ==
    LET st[k \in 0..Len(preliminary)] ==
            IF k = 0 THEN st0
            ELSE Phase2Step(st[k - 1], preliminary[Len(preliminary) - k + 1],
                            normalized_query, unread)
    IN st[Len(preliminary)]

Phase2(st0, preliminary, normalized_query, unread) ==
    LET st[k \in 0..Len(preliminary)] ==
            IF k = 0 THEN st0
            ELSE Phase2Step(st[k - 1], preliminary[k], normalized_query, unread)
    IN st[Len(preliminary)]

\* SkillScheduler._rank_second_pass_candidates: the indexes of all registry,
\* ranked.  query is the normalized query.
SECOND_PASS_ALIAS_WEIGHT == 20
SECOND_PASS_KEYWORD_WEIGHT == 5

SecondPassRank(skill, query, query_tokens) ==
    SECOND_PASS_ALIAS_WEIGHT
       * Cardinality({alias \in skill.aliases : Len(alias) >= 2 /\ IsSubstring(alias, query)})
    + SECOND_PASS_KEYWORD_WEIGHT * Cardinality(query_tokens \cap skill.keywords)

RankedKey(registry, rank, i) == <<0 - rank[i], parsed.rank[registry[i].identifier]>>

RankBy(registry, rank) ==
    StableSort([i \in 1..Len(registry) |-> i],
               [i \in 1..Len(registry) |-> RankedKey(registry, rank, i)])

_rank_second_pass_candidates(registry, query, query_tokens) ==
    RankBy(registry, [i \in 1..Len(registry) |-> SecondPassRank(registry[i], query, query_tokens)])

\* One turn of the loop of the second pass.  st.stopped: the loop has left
\* by its break.
\* A break that leaves the loop without counting what is left unread.
SecondPassBreakUncounted(st, remaining) ==
    [st EXCEPT !.stopped = TRUE]

SecondPassBreak(st, remaining) ==
    [st EXCEPT
       !.stopped = TRUE,
       !.stats.unread_due_to_limit = Len(remaining),
       !.stats.skipped_skill_ids =
          [k \in 1..Min(SAMPLE_CAP, Len(remaining)) |-> st.skills[remaining[k]].identifier]]

\* A second pass that returns every skill it reads, trigger hit or not.
SecondPassEmitAlways(st, i, ld, trigger_hits) ==
    [st EXCEPT
       !.read_budget = IF ld.loaded_now THEN @ - 1 ELSE @,
       !.skills = ld.skills,
       !.stats.reads_used = IF ld.loaded_now THEN @ + 1 ELSE @,
       !.charged = IF ld.loaded_now THEN @ \cup {i} ELSE @,
       !.attempted = IF ld.read THEN @ \cup {i} ELSE @,
       !.decisions =
          Append(@,
            [skill |-> i,
             score |-> Min(TRIGGER_CAP, Max(1, Len(trigger_hits)) * TRIGGER_WEIGHT),
             reasons |-> <<<<"trigger match (second pass)",
                             IF trigger_hits = <<>> THEN "" ELSE trigger_hits[1]>>>>])]

SecondPassEmit(st, i, ld, trigger_hits) ==
    [st EXCEPT
       !.read_budget = IF ld.loaded_now THEN @ - 1 ELSE @,
       !.skills = ld.skills,
       !.stats.reads_used = IF ld.loaded_now THEN @ + 1 ELSE @,
       !.charged = IF ld.loaded_now THEN @ \cup {i} ELSE @,
       !.attempted = IF ld.read THEN @ \cup {i} ELSE @,
       !.decisions =
          IF trigger_hits = <<>> THEN @
          ELSE Append(@,
                 [skill |-> i,
                  score |-> Min(TRIGGER_CAP, Len(trigger_hits) * TRIGGER_WEIGHT),
                  reasons |-> <<<<"trigger match (second pass)", trigger_hits[1]>>>>])]

SecondPassLoad(st, i, ld, normalized_query) ==
    SecondPassEmit(st, i, ld, TriggerHits(ld.skills[i], normalized_query))

\* The loop of the second pass without its budget check.
SecondPassStepUnbounded(st, candidates, i, normalized_query, unread) ==
    SecondPassLoad(st, i, _load_skill_details(st.skills, i, unread), normalized_query)

SecondPassStep(st, candidates, i, normalized_query, unread) ==
    IF st.stopped THEN st
    ELSE IF st.read_budget <= 0
    THEN SecondPassBreak(st, SelectSeq(candidates, LAMBDA c : ~st.skills[c].details_loaded))
    ELSE SecondPassLoad(st, i, _load_skill_details(st.skills, i, unread),
                        normalized_query)

SecondPassStart(registry, read_budget) ==
    [read_budget |-> read_budget,
     skills |-> registry,
     stats |-> [ranked_candidates |-> 0, unread_due_to_limit |-> 0,
                reads_used |-> 0, skipped_skill_ids |-> <<>>],
     decisions |-> <<>>,
     charged |-> {},
     attempted |-> {},
     stopped |-> FALSE]

SecondPassLoop(st0, candidates, normalized_query, unread) ==
    LET st[k \in 0..Len(candidates)] ==
            IF k = 0 THEN [st0 EXCEPT !.stats.ranked_candidates = Len(candidates)]
            ELSE SecondPassStep(st[k - 1], candidates, candidates[k],
                                normalized_query, unread)
    IN st[Len(candidates)]

SecondPassReturn(end, sorted, top_n) ==
    [skills |-> end.skills, stats |-> end.stats, charged |-> end.charged,
     attempted |-> end.attempted, full |-> sorted, returned |-> Take(sorted, top_n)]

SecondPassSort(end, top_n) ==
    SecondPassReturn(end,
                     SortDecisions(end.skills, end.decisions),
                     top_n)

\* SkillScheduler._trigger_only_second_pass: the decisions (full, and cut to
\* top_n), the stats and the registry afterwards.
_trigger_only_second_pass(registry, normalized_query, query_tokens, top_n, read_budget, unread) ==
    IF normalized_query = "" \/ read_budget <= 0
    THEN SecondPassReturn(SecondPassStart(registry, read_budget), <<>>, top_n)
    ELSE SecondPassSort(
            SecondPassLoop(SecondPassStart(registry, read_budget),
                           _rank_second_pass_candidates(registry, normalized_query, query_tokens),
                           normalized_query, unread),
            top_n)

\* SkillScheduler._fallback_decisions
FALLBACK_DEFAULTS == <<"planning-implementation", "planning", "managing-environment">>

\* The first skill of the registry that holds the alias, or 0.
FirstHolder(registry, name) ==
    LET holders == {i \in 1..Len(registry) : name \in registry[i].aliases}
    IN IF holders = {} THEN 0 ELSE CHOOSE h \in holders : \A g \in holders : h <= g

\* A fallback that scores its decisions as one trigger match.
FallbackSelectScored(registry, fb, i) ==
    IF i = 0 \/ registry[i].identifier \in fb.selected_identifiers
    THEN fb
    ELSE [selected_identifiers |-> fb.selected_identifiers \cup {registry[i].identifier},
          fallback |-> Append(fb.fallback,
                              [skill |-> i,
                               score |-> TRIGGER_WEIGHT,
                               reasons |-> <<<<"fallback default for ambiguous task">>>>])]

FallbackSelect(registry, fb, i) ==
    IF i = 0 \/ registry[i].identifier \in fb.selected_identifiers
    THEN fb
    ELSE [selected_identifiers |-> fb.selected_identifiers \cup {registry[i].identifier},
          fallback |-> Append(fb.fallback,
                              [skill |-> i,
                               score |-> FALLBACK_SCORE,
                               reasons |-> <<<<"fallback default for ambiguous task">>>>])]

FallbackStep(registry, fb, name) == FallbackSelect(registry, fb, FirstHolder(registry, name))

FallbackAll(registry) ==
    LET fb[k \in 0..Len(FALLBACK_DEFAULTS)] ==
            IF k = 0 THEN [selected_identifiers |-> {}, fallback |-> <<>>]
            ELSE FallbackStep(registry, fb[k - 1], FALLBACK_DEFAULTS[k])
    IN fb[Len(FALLBACK_DEFAULTS)].fallback

_fallback_decisions(registry, top_n) == Take(FallbackAll(registry), top_n)

\* The skipped identifiers of the second pass merged into the sample.
RECURSIVE MergeSkipped(_, _)
MergeSkipped(sample, ids) ==
    IF ids = <<>> \/ Len(sample) >= SAMPLE_CAP THEN sample
    ELSE MergeSkipped(IF Head(ids) \in Range(sample) THEN sample
                      ELSE Append(sample, Head(ids)),
                      Tail(ids))

\* What schedule() returns and leaves in the engine.  phase: the part of the
\* method that returned.
Outcome(skills_after, diagnostics, decisions, full, phase, preliminary, charged, attempted) ==
    [skills |-> skills_after, diagnostics |-> diagnostics, decisions |-> decisions,
     full |-> full, phase |-> phase, preliminary |-> preliminary,
     charged |-> charged, attempted |-> attempted]

\* A schedule() that takes the defaults whenever there are any, before the
\* decisions of the second pass.
AfterSecondPassFallbackFirst(p2, sp, fallback, preliminary, top_n) ==
    Outcome(sp.skills,
            [p2.diagnostics EXCEPT
               !.second_pass_used = TRUE,
               !.second_pass_ranked_candidates = sp.stats.ranked_candidates,
               !.second_pass_unread_due_to_limit = sp.stats.unread_due_to_limit,
               !.detailed_reads_used = @ + sp.stats.reads_used,
               !.skipped_skill_ids = MergeSkipped(@, sp.stats.skipped_skill_ids)],
            IF fallback # <<>> THEN Take(fallback, top_n) ELSE sp.returned,
            IF fallback # <<>> THEN fallback ELSE sp.full,
            IF fallback # <<>> THEN "fallback" ELSE "second_pass",
            preliminary, sp.charged, sp.attempted)

\* schedule() after the second pass: its decisions, or the fallback.
AfterSecondPass(p2, sp, fallback, preliminary, top_n) ==
    Outcome(sp.skills,
            [p2.diagnostics EXCEPT
               !.second_pass_used = TRUE,
               !.second_pass_ranked_candidates = sp.stats.ranked_candidates,
               !.second_pass_unread_due_to_limit = sp.stats.unread_due_to_limit,
               !.detailed_reads_used = @ + sp.stats.reads_used,
               !.skipped_skill_ids = MergeSkipped(@, sp.stats.skipped_skill_ids)],
            IF sp.returned # <<>> THEN sp.returned ELSE Take(fallback, top_n),
            IF sp.returned # <<>> THEN sp.full ELSE fallback,
            IF sp.returned # <<>> THEN "second_pass" ELSE "fallback",
            preliminary, sp.charged, sp.attempted)

SecondPassThenFallback(p2, sp, preliminary, top_n) ==
    AfterSecondPass(p2, sp, FallbackAll(sp.skills), preliminary, top_n)

\* schedule() after Phase 2: the sorted decisions, or the second pass.
AfterPhase2(p2, decisions, preliminary, normalized_query, query_tokens, top_n, unread) ==
    IF decisions # <<>>
    THEN Outcome(p2.skills, p2.diagnostics, Take(decisions, top_n), decisions,
                 "refine", preliminary, p2.charged, p2.attempted)
    ELSE SecondPassThenFallback(
            p2,
            _trigger_only_second_pass(p2.skills, normalized_query, query_tokens, top_n,
                                      p2.read_budget, unread),
            preliminary, top_n)

SortPhase2(p2, preliminary, normalized_query, query_tokens, top_n, unread) ==
    AfterPhase2(p2,
                SortDecisions(p2.skills, p2.decisions),
                preliminary, normalized_query, query_tokens, top_n, unread)

Phase2Start(registry, max_reads, preliminary) ==
    [read_budget |-> max_reads,
     skills |-> registry,
     diagnostics |-> [ScheduleDiagnostics(max_reads) EXCEPT
                        !.initial_ranked_candidates = Len(preliminary)],
     decisions |-> <<>>,
     charged |-> {},
     attempted |-> {}]

\* A Phase 2 that walks the first top_n candidates only.
AfterPhase1TopNOnly(registry, preliminary, max_reads, unread, normalized_query, query_tokens, top_n) ==
    SortPhase2(Phase2(Phase2Start(registry, max_reads, preliminary),
                      Take(preliminary, top_n), normalized_query, unread),
               preliminary, normalized_query, query_tokens, top_n, unread)

AfterPhase1(registry, preliminary, max_reads, unread, normalized_query, query_tokens, top_n) ==
    SortPhase2(Phase2(Phase2Start(registry, max_reads, preliminary),
                      preliminary, normalized_query, unread),
               preliminary, normalized_query, query_tokens, top_n, unread)

\* schedule() without the check of lines 254-258.
schedule_unguarded(registry, hints, max_reads, unread, task_text, top_n) ==
    AfterPhase1(registry,
                SortDecisions(registry,
                              Preliminary(registry, 1, parsed.lowered[task_text],
                                          parsed.tokens[task_text], hints)),
                max_reads, unread,
                parsed.normalized[task_text], parsed.tokens[task_text], top_n)

\* SkillScheduler.schedule on a loaded engine.
schedule(registry, hints, max_reads, unread, task_text, top_n) ==
    IF parsed.stripped[task_text] = ""
    THEN Outcome(registry, ScheduleDiagnostics(max_reads), <<>>, <<>>,
                 "blank", <<>>, {}, {})
    ELSE AfterPhase1(registry,
                     SortDecisions(registry,
                                   Preliminary(registry, 1, parsed.lowered[task_text],
                                               parsed.tokens[task_text], hints)),
                     max_reads, unread,
                     parsed.normalized[task_text], parsed.tokens[task_text], top_n)

(***************************************************************************)
(* The engine as a state machine                                           *)
(***************************************************************************)
\* Bounds of the model.
MaxReads == 3
MaxTopN == 5
MaxFsChanges == 1

TopNs == {0, 2, MaxTopN}

\* No run of the CLI.
NoRun == [ran |-> FALSE]

\* No call of the bundle compiler, and nothing for it to read.
NoCompile == [ran |-> FALSE]
NoCompileEnv == [policy |-> "none", templates |-> "none"]

\* The threads that call schedule() on one engine.
Threads == {1, 2}

\* No thread has called schedule().
NoThreads == [call |-> [t \in Threads |-> [pc |-> "idle"]], interleaved |-> FALSE,
              file_reads |-> <<>>]

NoCall ==
    [op |-> "none", task_text |-> "", top_n |-> 0, decisions |-> <<>>, full |-> <<>>,
     phase |-> "none", preliminary |-> <<>>, charged |-> {}, attempted |-> {},
     auto_loaded |-> FALSE]

\* SkillScheduler.__init__
Init ==
    /\ corpus \in Corpora
    /\ parsed = Parsed(corpus)
    /\ unreadable = {}
    /\ fs_changes = 0
    /\ \E requested \in 0..MaxReads : max_detailed_reads = Max(1, requested)
    /\ skills = <<>>
    /\ route_hints = <<>>
    /\ last_schedule_diagnostics = ScheduleDiagnostics(max_detailed_reads)
    /\ _loaded = FALSE
    /\ last = NoCall
    /\ loads = <<>>
    /\ cli = NoRun
    /\ compile_env = NoCompileEnv
    /\ compiled = NoCompile
    /\ threads = NoThreads

\* A load() that keeps what the engine held.
KeepRegistry(old) == old

\* load() starts from an empty registry and an empty hint list.
ResetRegistry(old) == <<>>

\* SkillScheduler.load as a function of the engine and the file system.
load(old_skills, old_hints, fs, unread) ==
    LET loaded_skills == ResetRegistry(old_skills) \o LoadDirs(skill_directories, fs, unread)
        hints == ResetRegistry(old_hints)
                 \o parsed.hints
    IN [skills |-> loaded_skills,
        route_hints |-> hints,
        report |->
          [total_skills |-> Len(loaded_skills),
           scanned_directories |->
              [d \in Directories |->
                 IF d \in fs.dirs THEN Len(SkillFiles(fs, d)) ELSE 0],
           missing_directories |->
              SelectSeq(skill_directories, LAMBDA d : d \notin fs.dirs),
           route_hints |-> Len(hints)]]

LoadRecord(ld, unread) ==
    [unreadable |-> unread, report |-> ld.report,
     skills |-> ld.skills, route_hints |-> ld.route_hints]

LoadEffect(ld) ==
    /\ skills' = ld.skills
    /\ route_hints' = ld.route_hints
    /\ _loaded' = TRUE
    /\ loads' = Take(<<LoadRecord(ld, unreadable)>> \o loads, 2)
    /\ last' = [NoCall EXCEPT !.op = "load"]
    /\ UNCHANGED <<corpus, parsed, unreadable, fs_changes, max_detailed_reads,
                   last_schedule_diagnostics, cli, compile_env, compiled, threads>>

\* The caller calls load().
Load == LoadEffect(load(skills, route_hints, corpus, unreadable))

ScheduleEffect(r, task_text, top_n) ==
    /\ skills' = r.skills
    /\ last_schedule_diagnostics' = r.diagnostics
    /\ last' = [op |-> "schedule", task_text |-> task_text, top_n |-> top_n,
                decisions |-> r.decisions, full |-> r.full, phase |-> r.phase,
                preliminary |-> r.preliminary, charged |-> r.charged,
                attempted |-> r.attempted, auto_loaded |-> ~_loaded]
    /\ UNCHANGED <<corpus, parsed, unreadable, fs_changes, max_detailed_reads, cli,
                   compile_env, compiled, threads>>

\* schedule() on an engine that has not loaded: load() first.
ScheduleUnloaded(ld, task_text, top_n) ==
    /\ route_hints' = ld.route_hints
    /\ _loaded' = TRUE
    /\ loads' = Take(<<LoadRecord(ld, unreadable)>> \o loads, 2)
    /\ ScheduleEffect(schedule(ld.skills, ld.route_hints, max_detailed_reads,
                               unreadable, task_text, top_n),
                      task_text, top_n)

\* A schedule() that loads the registry on every call.
ScheduleAlwaysLoads(task_text, top_n) ==
    ScheduleUnloaded(load(skills, route_hints, corpus, unreadable), task_text, top_n)

\* The caller calls schedule(task_text, top_n).
Schedule(task_text, top_n) ==
    IF _loaded
    THEN /\ UNCHANGED <<route_hints, _loaded, loads>>
         /\ ScheduleEffect(schedule(skills, route_hints, max_detailed_reads,
                                    unreadable, task_text, top_n),
                           task_text, top_n)
    ELSE ScheduleUnloaded(load(skills, route_hints, corpus, unreadable), task_text, top_n)

\* The environment makes a file unreadable, or readable again.
FsChange(f) ==
    /\ fs_changes < MaxFsChanges
    /\ fs_changes' = fs_changes + 1
    /\ unreadable' = IF f \in unreadable THEN unreadable \ {f} ELSE unreadable \cup {f}
    /\ last' = [NoCall EXCEPT !.op = "fs"]
    /\ UNCHANGED <<corpus, parsed, max_detailed_reads, skills, route_hints,
                   last_schedule_diagnostics, _loaded, loads, cli, compile_env,
                   compiled, threads>>

Next ==
    \/ Load
    \/ \E task_text \in corpus.asks, top_n \in TopNs : Schedule(task_text, top_n)
    \/ \E f \in corpus.fragile : FsChange(f)

Spec == Init /\ [][Next]_vars

(***************************************************************************)
(* Scheduler CLI (skill_scheduler.py at the repository root)               *)
(***************************************************************************)
DEFAULT_MAX_DETAILED_READS == 3

\* Python: str.split(sep) for a separator of one character.
RECURSIVE SplitOn(_, _, _)
SplitOn(s, sep, cur) ==
    IF s = "" THEN <<cur>>
    ELSE IF Ch(s, 1) = sep THEN <<cur>> \o SplitOn(Rest(s), sep, "")
    ELSE SplitOn(Rest(s), sep, cur \o Ch(s, 1))

\* Python: re.sub(r"-{2,}", "-", s).
RECURSIVE CollapseHyphens(_)
CollapseHyphens(s) ==
    IF Len(s) < 2 THEN s
    ELSE IF Ch(s, 1) = "-" /\ Ch(s, 2) = "-" THEN CollapseHyphens(Rest(s))
    ELSE Ch(s, 1) \o CollapseHyphens(Rest(s))

_normalize_intent(value) ==
    LET lowered == ToLower(Strip(value))
        dashed == Join(SplitWs(lowered, ""), "-")
        kept == DropChars(dashed, Chars \ (Lower \cup Digit \cup {"-"}))
    IN StripChars(CollapseHyphens(kept), {"-"})

_parse_intent_whitelist(raw) ==
    IF Strip(raw) = "" THEN <<>>
    ELSE LET parts == SplitOn(raw, ",", "")
             values == [k \in DOMAIN parts |-> _normalize_intent(parts[k])]
         IN SelectSeq(values, LAMBDA value : value # "")

_build_error(code, message, result) ==
    ("error" :> [code |-> code, message |-> message]) @@ result

\* ScheduleDiagnostics.to_dict().
DiagnosticsToDict(d) ==
    [max_detailed_reads |-> d.max_detailed_reads,
     detailed_reads_used |-> d.detailed_reads_used,
     initial_ranked_candidates |-> d.initial_ranked_candidates,
     initial_unread_due_to_limit |-> d.initial_unread_due_to_limit,
     second_pass_used |-> d.second_pass_used,
     second_pass_ranked_candidates |-> d.second_pass_ranked_candidates,
     second_pass_unread_due_to_limit |-> d.second_pass_unread_due_to_limit,
     skipped_due_to_limit_total |-> skipped_due_to_limit_total(d),
     guardrail_triggered |-> guardrail_triggered(d),
     sample_skipped_skill_ids |-> d.skipped_skill_ids]

\* ScheduleDecision.to_dict() over a decision list.
DecisionsToDict(registry, decisions) ==
    [k \in DOMAIN decisions |->
        [skill_id |-> registry[decisions[k].skill].identifier,
         display_name |-> registry[decisions[k].skill].display_name,
         score |-> decisions[k].score,
         reasons |-> decisions[k].reasons,
         path |-> registry[decisions[k].skill].path]]

_run_status_mode(registry, load_report) ==
    LET known_ids == {registry[i].identifier : i \in DOMAIN registry}
    IN ("mode" :> "status")
       @@ ("load_report" :> load_report)
       @@ ("fallback_skills" :>
              [item \in Range(FALLBACK_DEFAULTS) |->
                  IF item \in known_ids THEN "found" ELSE "missing"])

\* A whitelist check that only asks for some context.
WhitelistRejectsMissingOnly(whitelist, normalized_context) ==
    /\ whitelist # <<>>
    /\ normalized_context = ""

\* The whitelist check of main(): the run is rejected.
WhitelistRejects(whitelist, normalized_context) ==
    /\ whitelist # <<>>
    /\ \/ normalized_context = ""
       \/ normalized_context \notin Range(whitelist)

\* What a run leaves behind: exit code, printed payload, the engine.
CliOutcome(exit, printed, registry, diagnostics, call) ==
    [exit |-> exit, printed |-> printed, skills |-> registry,
     diagnostics |-> diagnostics, call |-> call]

\* main(): the status branch, the whitelist check, the routing branch.
main(args, ld, max_reads, unread) ==
    LET base == ("load_report" :> ld.report)
                @@ ("config" :> [max_skill_reads |-> max_reads])
        whitelist == _parse_intent_whitelist(args.intent_whitelist)
        normalized_context == _normalize_intent(args.context)
        result == IF whitelist # <<>>
                  THEN ("intent_whitelist" :> whitelist) @@ base
                  ELSE base
        has_context == Strip(args.context) # ""
        query == IF has_context
                 THEN args.task \o "\n" \o Strip(args.context)
                 ELSE args.task
        top_n == Max(1, args.top)
        r == schedule(ld.skills, ld.route_hints, max_reads, unread, query, top_n)
    IN IF args.status
       THEN CliOutcome(0, _run_status_mode(ld.skills, ld.report),
                       ld.skills, ScheduleDiagnostics(max_reads), <<>>)
       ELSE IF WhitelistRejects(whitelist, normalized_context)
       THEN CliOutcome(2,
                       _build_error("invalid_intent",
                                    IF normalized_context = ""
                                    THEN <<"--context is required">>
                                    ELSE <<"context is not in whitelist",
                                           args.context, whitelist>>,
                                    result),
                       ld.skills, ScheduleDiagnostics(max_reads), <<>>)
       ELSE IF Strip(args.task) = ""
       THEN CliOutcome(0, result, ld.skills, ScheduleDiagnostics(max_reads), <<>>)
       ELSE CliOutcome(0,
                       ("task" :> args.task)
                       @@ ("decisions" :> DecisionsToDict(r.skills, r.decisions))
                       @@ ("schedule_diagnostics" :> DiagnosticsToDict(r.diagnostics))
                       @@ (IF has_context THEN "context" :> Strip(args.context) ELSE <<>>)
                       @@ result,
                       r.skills, r.diagnostics,
                       <<[task_text |-> query, top_n |-> top_n, r |-> r]>>)

CliTasks == {"", "health check", "install packages"}
CliContexts == {"", "deploy-to-prod", "Handling Review", "!!!"}

CliArgs ==
    [task : CliTasks, context : CliContexts,
     intent_whitelist : {"", " , ", "planning-implementation,handling-review"},
     status : BOOLEAN, top : {0, MaxTopN}, max_skill_reads : {0, MaxReads},
     format : {"text", "json"}]

\* Every query a run can hand to schedule().
CliQueries ==
    CliTasks \cup {t \o "\n" \o Strip(c) : t \in CliTasks, c \in CliContexts}

\* The process before main(): no engine yet, any repository.
CliInit ==
    /\ \E c \in Corpora : corpus = [c EXCEPT !.asks = CliQueries]
    /\ parsed = Parsed(corpus)
    /\ unreadable \in {{}, corpus.fragile}
    /\ fs_changes = 0
    /\ max_detailed_reads = DEFAULT_MAX_DETAILED_READS
    /\ skills = <<>>
    /\ route_hints = <<>>
    /\ last_schedule_diagnostics = ScheduleDiagnostics(max_detailed_reads)
    /\ _loaded = FALSE
    /\ last = NoCall
    /\ loads = <<>>
    /\ cli = NoRun
    /\ compile_env = NoCompileEnv
    /\ compiled = NoCompile
    /\ threads = NoThreads

\* The process after main() has returned out.
MainEffect(args, ld, max_reads, out) ==
    /\ max_detailed_reads' = max_reads
    /\ skills' = out.skills
    /\ route_hints' = ld.route_hints
    /\ _loaded' = TRUE
    /\ loads' = <<LoadRecord(ld, unreadable)>>
    /\ last_schedule_diagnostics' = out.diagnostics
    /\ last' = IF out.call = <<>>
               THEN [NoCall EXCEPT !.op = "load"]
               ELSE [op |-> "schedule", task_text |-> out.call[1].task_text,
                     top_n |-> out.call[1].top_n,
                     decisions |-> out.call[1].r.decisions, full |-> out.call[1].r.full,
                     phase |-> out.call[1].r.phase,
                     preliminary |-> out.call[1].r.preliminary,
                     charged |-> out.call[1].r.charged,
                     attempted |-> out.call[1].r.attempted, auto_loaded |-> FALSE]
    /\ cli' = [ran |-> TRUE, args |-> args, exit |-> out.exit, printed |-> out.printed,
               schedule_calls |-> Len(out.call)]
    /\ UNCHANGED <<corpus, parsed, unreadable, fs_changes, compile_env, compiled, threads>>

\* One run of the CLI with the arguments args.
Main(args) ==
    LET ld == load(<<>>, <<>>, corpus, unreadable)
        max_reads == Max(1, args.max_skill_reads)
    IN /\ ~cli.ran
       /\ MainEffect(args, ld, max_reads, main(args, ld, max_reads, unreadable))

CliNext == \E args \in CliArgs : Main(args)

CliSpec == CliInit /\ [][CliNext]_vars

(***************************************************************************)
(* Bundle compiler (compiler/)                                             *)
(***************************************************************************)
SUPPORTED_ADAPTERS == <<"codex", "copilot", "gemini">>

ALLOWED_POLICY_KEYS ==
    {"require_scheduler_for_complex_tasks", "require_json_output", "no_destructive_git",
     "default_max_skill_reads", "max_scheduler_retries",
     "require_traceable_routing_status", "require_intent_whitelist",
     "require_absolute_scheduler_path", "output_language", "max_skill_reads"}

ADAPTER_OUTPUT_FILENAMES ==
    [codex |-> "AGENTS.generated.md", copilot |-> "copilot.prompt.md",
     gemini |-> "gemini.prompt.md"]

\* The bundle files of a skills repository, by bundle name, as lines.
BundleDocs ==
    [engineer |-> <<"name: engineer", "description: Engineering bundle", "skills:",
                    "  - planning-implementation", "  - handling-review",
                    "policy_overrides:", "  output_language: zh-TW",
                    "  max_skill_reads: 4">>,
     planner |-> <<"# planning only", "description: 'Planning bundle'", "skills:",
                   "  - planning-implementation", "  - managing-environment",
                   "policy_overrides:", "  max_scheduler_retries: 1">>,
     reviewer |-> <<"name: Review", "skills:", "  - handling-review", "",
                    "policy_overrides:", "  colour: blue">>,
     broken |-> <<"name: broken", "skills:", "  - planning-implementation",
                  "  - missing-skill">>,
     empty |-> <<"name: empty", "skills:", "  planning-implementation">>,
     garbled |-> <<"name: garbled", "skills:", "  - missing-skill", "garbage">>]

\* The base policy files (policies/base.yaml), as lines.
PolicyDocs ==
    [tests |-> <<"require_scheduler_for_complex_tasks: true", "require_json_output: true",
                 "max_scheduler_retries: 2", "default_max_skill_reads: 3">>,
     minimal |-> <<"require_scheduler_for_complex_tasks: true">>,
     unknown |-> <<"# house style", "colour: blue", "default_max_skill_reads: '2'">>,
     worded |-> <<"default_max_skill_reads: many">>,
     malformed |-> <<"not a key value">>]

\* The adapter templates: every template present and complete, the gemini
\* template missing, the copilot template without the sections the rendered
\* prompt is validated for.
TemplateSets ==
    [complete |-> [codex |-> "ok", copilot |-> "ok", gemini |-> "ok"],
     no_gemini |-> [codex |-> "ok", copilot |-> "ok", gemini |-> "missing"],
     bare_copilot |-> [codex |-> "ok", copilot |-> "bare", gemini |-> "ok"]]

\* A call that returned value, and a call that raised.
Ok(value) == [raised |-> "", value |-> value]
Raise(kind, message) == [raised |-> kind, message |-> message]

\* Python: str.startswith(prefix).
StartsWith(s, prefix) == Len(s) >= Len(prefix) /\ SubSeq(s, 1, Len(prefix)) = prefix

\* re.fullmatch(r"-?\d+", text)
IsInt(text) ==
    LET digits == IF StartsWith(text, "-") THEN Rest(text) ELSE text
    IN digits # "" /\ \A i \in 1..Len(digits) : Ch(digits, i) \in Digit

\* Python: int(digits) for a text of digits, from the value acc of the digits
\* read so far.
RECURSIVE DigitsValue(_, _)
DigitsValue(digits, acc) ==
    IF digits = "" THEN acc
    ELSE DigitsValue(Rest(digits),
                     10 * acc + (CHOOSE d \in 0..9 : Ch(DigitChars, d + 1) = Ch(digits, 1)))

\* Python: int(text) for a text IsInt accepts.
IntValue(text) ==
    IF StartsWith(text, "-") THEN 0 - DigitsValue(Rest(text), 0) ELSE DigitsValue(text, 0)

\* Python: str(n) for n >= 0.
RECURSIVE NatToStr(_)
NatToStr(n) ==
    IF n < 10 THEN Ch(DigitChars, n + 1)
    ELSE NatToStr(n \div 10) \o Ch(DigitChars, (n % 10) + 1)

\* A parsed scalar is a pair: its Python type and its value.
_parse_scalar(raw) ==
    LET stripped == Strip(raw)
        text == IF /\ Len(stripped) >= 2
                   /\ Ch(stripped, 1) \in {"'", "\""}
                   /\ Ch(stripped, Len(stripped)) \in {"'", "\""}
                THEN SubSeq(stripped, 2, Len(stripped) - 1)
                ELSE stripped
        lowered == ToLower(text)
    IN IF lowered = "true" THEN <<"bool", TRUE>>
       ELSE IF lowered = "false" THEN <<"bool", FALSE>>
       ELSE IF IsInt(text) THEN <<"int", IntValue(text)>>
       ELSE <<"str", text>>

\* Python: str(scalar).
PyStr(scalar) ==
    IF scalar[1] = "bool" THEN (IF scalar[2] THEN "True" ELSE "False")
    ELSE IF scalar[1] = "int"
         THEN (IF scalar[2] < 0 THEN "-" \o NatToStr(0 - scalar[2]) ELSE NatToStr(scalar[2]))
    ELSE scalar[2]

\* Python: int(scalar); a text that is no number raises ValueError.
PyInt(scalar) ==
    IF scalar[1] = "bool" THEN Ok(IF scalar[2] THEN 1 ELSE 0)
    ELSE IF scalar[1] = "int" THEN Ok(scalar[2])
    ELSE IF IsInt(Strip(scalar[2])) THEN Ok(IntValue(Strip(scalar[2])))
    ELSE Raise("ValueError", <<"invalid literal for int()", scalar[2]>>)

\* Python: a dict is the sequence of its (key, value) pairs in insertion
\* order; key in d, d.get(key, default), d[key] = value, d.update(other).
DictHas(d, key) == \E i \in DOMAIN d : d[i][1] = key

DictGet(d, key, default) ==
    IF DictHas(d, key) THEN d[CHOOSE i \in DOMAIN d : d[i][1] = key][2] ELSE default

DictSet(d, key, value) ==
    IF DictHas(d, key)
    THEN [i \in DOMAIN d |-> IF d[i][1] = key THEN <<key, value>> ELSE d[i]]
    ELSE Append(d, <<key, value>>)

RECURSIVE DictUpdate(_, _)
DictUpdate(d, other) ==
    IF other = <<>> THEN d
    ELSE DictUpdate(DictSet(d, Head(other)[1], Head(other)[2]), Tail(other))

_split_key_value(line) ==
    IF \A i \in 1..Len(line) : Ch(line, i) # ":"
    THEN Raise("ValueError", <<"Invalid YAML key/value line", line>>)
    ELSE LET parts == SplitOn(line, ":", "")
         IN Ok(<<Strip(parts[1]), Strip(Join(Tail(parts), ":"))>>)

RECURSIVE _parse_key_value_yaml(_, _)
_parse_key_value_yaml(lines, result) ==
    IF lines = <<>> THEN Ok(result)
    ELSE LET stripped == Strip(Head(lines))
             kv == _split_key_value(stripped)
         IN IF stripped = "" \/ StartsWith(stripped, "#")
            THEN _parse_key_value_yaml(Tail(lines), result)
            ELSE IF kv.raised # "" THEN kv
            ELSE _parse_key_value_yaml(Tail(lines),
                                       DictSet(result, kv.value[1],
                                               _parse_scalar(kv.value[2])))

load_base_policy(repo_exists, policy) ==
    IF ~repo_exists \/ policy \notin DOMAIN PolicyDocs THEN Ok(<<>>)
    ELSE _parse_key_value_yaml(PolicyDocs[policy], <<>>)

\* One line of the loop of load_bundle_spec: a top-level key, an item of the
\* skills section, an entry of the policy_overrides section.
BundleLine(st, line) ==
    LET stripped == Strip(line)
        top == Ch(line, 1) \notin Whitespace
        kv == _split_key_value(IF top THEN line ELSE stripped)
    IN IF stripped = "" \/ StartsWith(stripped, "#") THEN st
       ELSE IF top
            THEN (IF kv.raised # "" THEN [st EXCEPT !.raised = kv]
                  ELSE [st EXCEPT
                          !.section = IF kv.value[1] \in {"skills", "policy_overrides"}
                                      THEN kv.value[1] ELSE "",
                          !.name = IF kv.value[1] = "name"
                                   THEN PyStr(_parse_scalar(kv.value[2])) ELSE @,
                          !.description = IF kv.value[1] = "description"
                                          THEN PyStr(_parse_scalar(kv.value[2])) ELSE @])
       ELSE IF st.section = "skills"
            THEN (IF StartsWith(stripped, "- ")
                  THEN [st EXCEPT !.skills =
                           Append(@, PyStr(_parse_scalar(SubSeq(stripped, 3, Len(stripped)))))]
                  ELSE st)
       ELSE IF st.section = "policy_overrides"
            THEN (IF kv.raised # "" THEN [st EXCEPT !.raised = kv]
                  ELSE [st EXCEPT !.policy_overrides =
                                      DictSet(@, kv.value[1], _parse_scalar(kv.value[2]))])
       ELSE st

RECURSIVE BundleLines(_, _)
BundleLines(st, lines) ==
    IF lines = <<>> \/ st.raised.raised # "" THEN st
    ELSE BundleLines(BundleLine(st, Head(lines)), Tail(lines))

load_bundle_spec(repo_exists, bundle_name) ==
    LET st == BundleLines([name |-> "", description |-> "", skills |-> <<>>,
                           policy_overrides |-> <<>>, section |-> "",
                           raised |-> Ok(<<>>)],
                          BundleDocs[bundle_name])
    IN IF ~repo_exists \/ bundle_name \notin DOMAIN BundleDocs
       THEN Raise("FileNotFoundError", <<"Bundle not found", bundle_name>>)
       ELSE IF st.raised.raised # "" THEN st.raised
       ELSE Ok([name |-> IF st.name # "" THEN st.name ELSE bundle_name,
                description |-> st.description,
                skills |-> st.skills,
                policy_overrides |-> st.policy_overrides])

_normalize_id(value) ==
    LET lowered == ToLower(Strip(value))
        dashed == Join(SplitWs(lowered, ""), "-")
        kept == DropChars(dashed, Chars \ (Lower \cup Digit \cup {"-"}))
    IN StripChars(CollapseHyphens(kept), {"-"})

\* _parse_frontmatter of compiler/spec_loader.py: values lose their quotes.
spec_loader_parse_frontmatter(f) ==
    [k \in {k \in {"name", "description"} : FileTable[f][k] # NoValue} |->
        StripChars(Strip(FileTable[f][k]), {"'", "\""})]

SkillMeta(f) ==
    LET frontmatter == spec_loader_parse_frontmatter(f)
        name == Get(frontmatter, "name", "")
    IN [identifier |-> _normalize_id(IF name # "" THEN name ELSE FileTable[f].parent),
        description |-> Strip(Get(frontmatter, "description", "")),
        path |-> f]

RECURSIVE IndexFiles(_, _, _)
IndexFiles(candidates, unread, index) ==
    IF candidates = <<>> THEN Ok(index)
    ELSE IF Head(candidates) \in unread
         THEN Raise("OSError", <<"cannot read", Head(candidates)>>)
    ELSE IndexFiles(Tail(candidates), unread,
                    IF SkillMeta(Head(candidates)).identifier = "" THEN index
                    ELSE DictSet(index, SkillMeta(Head(candidates)).identifier,
                                 SkillMeta(Head(candidates))))

load_skill_index(fs, skills_repo, unread) ==
    IndexFiles(IF skills_repo \in fs.dirs THEN SkillFiles(fs, skills_repo) ELSE <<>>,
               unread, <<>>)

\* A validation that never looks for the skills of the bundle in the index.
MissingSkillErrorsUnchecked(name, bundle_skills, skill_index) == <<>>

RECURSIVE MissingSkillErrors(_, _, _)
MissingSkillErrors(name, bundle_skills, skill_index) ==
    IF bundle_skills = <<>> THEN <<>>
    ELSE (IF DictHas(skill_index, Head(bundle_skills)) THEN <<>>
          ELSE <<<<"references missing skill", name, Head(bundle_skills)>>>>)
         \o MissingSkillErrors(name, Tail(bundle_skills), skill_index)

RECURSIVE UnknownKeyErrors(_, _)
UnknownKeyErrors(what, policy) ==
    IF policy = <<>> THEN <<>>
    ELSE (IF Head(policy)[1] \in ALLOWED_POLICY_KEYS THEN <<>>
          ELSE <<Append(what, Head(policy)[1])>>)
         \o UnknownKeyErrors(what, Tail(policy))

validate_spec(bundle, base_policy, skill_index) ==
    (IF bundle.skills = <<>> THEN <<<<"has no skills", bundle.name>>>> ELSE <<>>)
    \o MissingSkillErrors(bundle.name, bundle.skills, skill_index)
    \o UnknownKeyErrors(<<"Unknown policy key in base policy">>, base_policy)
    \o UnknownKeyErrors(<<"Unknown policy override key in bundle", bundle.name>>,
                        bundle.policy_overrides)

\* validate_rendered_prompt on the prompt rendered from a template.
validate_rendered_prompt(template, ir) ==
    IF template = "ok" THEN <<>>
    ELSE <<<<"missing Intent Whitelist section">>>>
         \o [k \in DOMAIN ir.intent_enum |-> <<"missing whitelisted intent", ir.intent_enum[k]>>]
         \o <<<<"missing stdout/stderr feedback-loop guidance">>,
              <<"missing absolute scheduler path or env fallback">>>>

RECURSIVE NormalizeEach(_)
NormalizeEach(adapters) ==
    IF adapters = <<>> THEN Ok(<<>>)
    ELSE LET lowered == ToLower(Strip(Head(adapters)))
             rest == NormalizeEach(Tail(adapters))
         IN IF lowered # "all" /\ lowered \notin Range(SUPPORTED_ADAPTERS)
            THEN Raise("ValueError", <<"Unsupported adapter", Head(adapters)>>)
            ELSE IF rest.raised # "" THEN rest
            ELSE Ok((IF lowered = "all" THEN SUPPORTED_ADAPTERS ELSE <<lowered>>)
                    \o rest.value)

RECURSIVE DedupeAdapters(_, _)
DedupeAdapters(normalized, deduped) ==
    IF normalized = <<>> THEN deduped
    ELSE DedupeAdapters(Tail(normalized),
                        IF Head(normalized) \in Range(deduped) THEN deduped
                        ELSE Append(deduped, Head(normalized)))

_normalize_adapters(adapters) ==
    LET normalized == NormalizeEach(adapters)
        deduped == DedupeAdapters(normalized.value, <<>>)
    IN IF normalized.raised # "" THEN normalized
       ELSE IF deduped = <<>> THEN Raise("ValueError", <<"No adapters provided.">>)
       ELSE Ok(deduped)

\* What a call leaves behind: what it raised, the paths it returned, the
\* files under the output root.
CompileOutcome(raised, returned, written) ==
    [raised |-> raised, returned |-> returned, written |-> written]

OutputFiles(adapter, bundle_name) ==
    <<<<adapter, bundle_name, ADAPTER_OUTPUT_FILENAMES[adapter]>>,
      <<adapter, bundle_name, "ir.json">>,
      <<adapter, bundle_name, "manifest.json">>>>

\* The loop over the adapters, with render_adapter_output.
RECURSIVE RenderAll(_, _, _, _, _)
RenderAll(adapters, templates, ir, retries, written_files) ==
    IF adapters = <<>> THEN CompileOutcome(Ok(written_files), written_files, Range(written_files))
    ELSE IF templates[Head(adapters)] = "missing"
         THEN CompileOutcome(Raise("FileNotFoundError",
                                   <<"Adapter template missing", Head(adapters)>>),
                             <<>>, Range(written_files))
    ELSE IF retries.raised # ""
         THEN CompileOutcome(retries, <<>>, Range(written_files))
    ELSE IF validate_rendered_prompt(templates[Head(adapters)], ir) # <<>>
         THEN CompileOutcome(Raise("ValueError",
                                   <<"Rendered prompt validation failed",
                                     validate_rendered_prompt(templates[Head(adapters)], ir)>>),
                             <<>>, Range(written_files))
    ELSE RenderAll(Tail(adapters), templates, ir, retries,
                   written_files \o OutputFiles(Head(adapters), ir.bundle.name))

RECURSIVE SelectSkills(_, _)
SelectSkills(bundle_skills, skill_index) ==
    IF bundle_skills = <<>> THEN Ok(<<>>)
    ELSE LET rest == SelectSkills(Tail(bundle_skills), skill_index)
         IN IF ~DictHas(skill_index, Head(bundle_skills))
            THEN Raise("KeyError", Head(bundle_skills))
            ELSE IF rest.raised # "" THEN rest
            ELSE Ok(<<DictGet(skill_index, Head(bundle_skills), NoValue)>> \o rest.value)

\* merged_policies with its max_skill_reads entry.
MergedPolicies(merged, override) ==
    IF override # <<>>
    THEN Ok(DictSet(merged, "max_skill_reads", <<"int", Max(1, override[1])>>))
    ELSE IF DictHas(merged, "max_skill_reads") THEN Ok(merged)
    ELSE LET reads == PyInt(DictGet(merged, "default_max_skill_reads", <<"int", 3>>))
         IN IF reads.raised # "" THEN reads
            ELSE Ok(DictSet(merged, "max_skill_reads", <<"int", reads.value>>))

\* What the three loaders of compile_bundle_for_agents return on a file
\* system with the policy file policy: load_base_policy and load_bundle_spec
\* by whether the skills repository exists, load_skill_index by repository.
CompilerInputs(fs, unread, policy) ==
    [base_policy |-> [e \in BOOLEAN |-> load_base_policy(e, policy)],
     bundle |-> [e \in BOOLEAN |->
                   [b \in DOMAIN BundleDocs \cup {"absent"} |-> load_bundle_spec(e, b)]],
     skill_index |-> [d \in Directories |-> load_skill_index(fs, d, unread)]]

\* compile_bundle_for_agents: the adapters, the three files (env.loaded holds
\* what their loaders return), the validation of the spec, the merged
\* policies, the loop over the adapters.
compile_bundle_for_agents(args, fs, env) ==
    LET repo_exists == args.skills_repo \in fs.dirs
        adapters == _normalize_adapters(args.adapters)
        base_policy == env.loaded.base_policy[repo_exists]
        bundle == env.loaded.bundle[repo_exists][args.bundle_name]
        skill_index == env.loaded.skill_index[args.skills_repo]
        spec_errors == validate_spec(bundle.value, base_policy.value, skill_index.value)
        selected == SelectSkills(bundle.value.skills, skill_index.value)
        merged == MergedPolicies(DictUpdate(base_policy.value,
                                            bundle.value.policy_overrides),
                                 args.max_skill_reads_override)
        reads == PyInt(DictGet(merged.value, "max_skill_reads", <<"int", 3>>))
    IN IF adapters.raised # "" THEN CompileOutcome(adapters, <<>>, {})
       ELSE IF base_policy.raised # "" THEN CompileOutcome(base_policy, <<>>, {})
       ELSE IF bundle.raised # "" THEN CompileOutcome(bundle, <<>>, {})
       ELSE IF skill_index.raised # "" THEN CompileOutcome(skill_index, <<>>, {})
       ELSE IF spec_errors # <<>>
       THEN CompileOutcome(Raise("ValueError", <<"Spec validation failed", spec_errors>>),
                           <<>>, {})
       ELSE IF selected.raised # "" THEN CompileOutcome(selected, <<>>, {})
       ELSE IF merged.raised # "" THEN CompileOutcome(merged, <<>>, {})
       ELSE IF reads.raised # "" THEN CompileOutcome(reads, <<>>, {})
       ELSE RenderAll(adapters.value, TemplateSets[env.templates],
                      [bundle |-> bundle.value, skills |-> selected.value,
                       policies |-> merged.value, intent_enum |-> bundle.value.skills],
                      PyInt(DictGet(merged.value, "max_scheduler_retries", <<"int", 2>>)),
                      <<>>)

CompileArgs ==
    [adapters : {<<>>, <<"codex">>, <<"all">>, <<"Codex ", "gemini", "codex">>, <<"bogus">>,
                 <<"copilot", "bogus">>},
     bundle_name : DOMAIN BundleDocs \cup {"absent"},
     skills_repo : Directories,
     max_skill_reads_override : {<<>>, <<0>>, <<MaxReads>>}]

\* Before the call: any repository, any policy file, any set of templates.
CompileInit ==
    /\ corpus \in Corpora
    /\ parsed = Parsed(corpus)
    /\ unreadable \in {{}, corpus.fragile}
    /\ fs_changes = 0
    /\ max_detailed_reads = DEFAULT_MAX_DETAILED_READS
    /\ skills = <<>>
    /\ route_hints = <<>>
    /\ last_schedule_diagnostics = ScheduleDiagnostics(max_detailed_reads)
    /\ _loaded = FALSE
    /\ last = NoCall
    /\ loads = <<>>
    /\ cli = NoRun
    /\ \E policy \in DOMAIN PolicyDocs \cup {"none"}, templates \in DOMAIN TemplateSets :
          compile_env = [policy |-> policy, templates |-> templates,
                         loaded |-> CompilerInputs(corpus, unreadable, policy)]
    /\ compiled = NoCompile
    /\ threads = NoThreads

\* One call of compile_bundle_for_agents on an empty output root.
Compile(args) ==
    LET out == compile_bundle_for_agents(args, corpus, compile_env)
    IN /\ ~compiled.ran
       /\ compiled' = [ran |-> TRUE, args |-> args, raised |-> out.raised.raised,
                       result |-> out.raised, returned |-> out.returned,
                       written |-> out.written]
       /\ UNCHANGED <<corpus, parsed, unreadable, fs_changes, max_detailed_reads, skills,
                      route_hints, last_schedule_diagnostics, _loaded, last, loads, cli,
                      compile_env, threads>>

CompileNext == \E args \in CompileArgs : Compile(args)

CompileSpec == CompileInit /\ [][CompileNext]_vars

(***************************************************************************)
(* Two schedule() calls on one engine, without a lock                      *)
(***************************************************************************)
\* The first line of _load_skill_details: the flag as the caller sees it.
ObserveFlagUnset(registry, i) == FALSE

ObserveFlag(registry, i) == registry[i].details_loaded

\* The engine after load(), two threads about to call schedule().
ConcInit ==
    /\ corpus \in Corpora
    /\ parsed = Parsed(corpus)
    /\ unreadable \in {{}, corpus.fragile}
    /\ fs_changes = 0
    /\ \E requested \in 0..MaxReads : max_detailed_reads = Max(1, requested)
    /\ skills = load(<<>>, <<>>, corpus, unreadable).skills
    /\ route_hints = load(<<>>, <<>>, corpus, unreadable).route_hints
    /\ last_schedule_diagnostics = ScheduleDiagnostics(max_detailed_reads)
    /\ _loaded = TRUE
    /\ last = [NoCall EXCEPT !.op = "load"]
    /\ loads = <<LoadRecord(load(<<>>, <<>>, corpus, unreadable), unreadable)>>
    /\ cli = NoRun
    /\ compile_env = NoCompileEnv
    /\ compiled = NoCompile
    /\ threads = [NoThreads EXCEPT !.file_reads = [i \in DOMAIN skills |-> 0]]

\* Thread t takes a step: the other thread is in the middle of its call or
\* it is not.
Step(t, call, reads) ==
    threads' = [call |-> [threads.call EXCEPT ![t] = call],
                interleaved |-> threads.interleaved
                                \/ \E u \in Threads \ {t} :
                                      threads.call[u].pc \notin {"idle", "done"},
                file_reads |-> reads]

\* schedule() returns in thread t.
Finish(t, c, r) ==
    /\ skills' = r.skills
    /\ last_schedule_diagnostics' = r.diagnostics
    /\ last' = [op |-> "schedule", task_text |-> c.task_text,
                top_n |-> c.top_n,
                decisions |-> r.decisions, full |-> r.full, phase |-> r.phase,
                preliminary |-> r.preliminary, charged |-> r.charged,
                attempted |-> r.attempted, auto_loaded |-> FALSE]
    /\ Step(t, [pc |-> "done", task_text |-> c.task_text,
                top_n |-> c.top_n, diagnostics |-> r.diagnostics,
                decisions |-> r.decisions, charged |-> r.charged],
            threads.file_reads)
    /\ UNCHANGED <<corpus, parsed, unreadable, fs_changes, max_detailed_reads, route_hints,
                   _loaded, loads, cli, compile_env, compiled>>

\* A step inside schedule() in thread t: the registry and the loop state.
Continue(t, registry, call, reads) ==
    /\ skills' = registry
    /\ Step(t, call, reads)
    /\ UNCHANGED <<corpus, parsed, unreadable, fs_changes, max_detailed_reads, route_hints,
                   last_schedule_diagnostics, _loaded, last, loads, cli, compile_env,
                   compiled>>

\* Thread t calls schedule(task_text, top_n): Phase 1.
Begin(t, task_text, top_n) ==
    /\ threads.call[t].pc = "idle"
    /\ IF parsed.stripped[task_text] = ""
       THEN Finish(t, [task_text |-> task_text, top_n |-> top_n],
                   Outcome(skills, ScheduleDiagnostics(max_detailed_reads), <<>>, <<>>,
                           "blank", <<>>, {}, {}))
       ELSE LET preliminary ==
                    SortDecisions(skills,
                                  Preliminary(skills, 1, parsed.lowered[task_text],
                                              parsed.tokens[task_text], route_hints))
            IN Continue(t, skills,
                        [pc |-> "phase2", task_text |-> task_text, top_n |-> top_n,
                         preliminary |-> preliminary, k |-> 1,
                         st |-> Phase2Start(skills, max_detailed_reads, preliminary)],
                        threads.file_reads)

\* Phase 2 in thread t reaches its next candidate: without budget the
\* candidate is skipped, with budget the flag of the skill is looked at.
Phase2Check(t) ==
    LET c == threads.call[t]
    IN /\ c.pc = "phase2"
       /\ c.k <= Len(c.preliminary)
       /\ IF c.st.read_budget > 0
          THEN Continue(t, skills,
                        [c EXCEPT !.pc = "phase2_load"]
                        @@ [observed |-> ObserveFlag(skills, c.preliminary[c.k].skill)],
                        threads.file_reads)
          ELSE Continue(t, skills,
                        [c EXCEPT !.k = @ + 1,
                                  !.st = Phase2Skip([c.st EXCEPT !.skills = skills],
                                                    c.preliminary[c.k])],
                        threads.file_reads)

\* The rest of _load_skill_details and of the turn of the loop, for the flag
\* that was seen: the registry as the call sees it has the flag of the skill
\* as it was when the call looked at it.
Phase2LoadStep(t) ==
    LET c == threads.call[t]
    IN /\ c.pc = "phase2_load"
       /\ LET candidate == c.preliminary[c.k]
              ld == _load_skill_details(
                        [skills EXCEPT ![candidate.skill].details_loaded = c.observed],
                        candidate.skill, unreadable)
          IN Continue(t, IF ld.read THEN ld.skills ELSE skills,
                      [pc |-> "phase2", task_text |-> c.task_text, top_n |-> c.top_n,
                       preliminary |-> c.preliminary, k |-> c.k + 1,
                       st |-> Phase2Load(c.st, candidate, ld,
                                         parsed.normalized[c.task_text])],
                      IF ld.loaded_now
                      THEN [threads.file_reads EXCEPT ![candidate.skill] = @ + 1]
                      ELSE threads.file_reads)

\* Phase 2 in thread t is over: the decisions are sorted and returned, or
\* the second pass starts (with no budget or no query text it has no loop).
Phase2End(t) ==
    LET c == threads.call[t]
        p2 == [c.st EXCEPT !.skills = skills]
        decisions == SortDecisions(skills, c.st.decisions)
        candidates == _rank_second_pass_candidates(skills, parsed.normalized[c.task_text],
                                                   parsed.tokens[c.task_text])
    IN /\ c.pc = "phase2"
       /\ c.k > Len(c.preliminary)
       /\ IF decisions # <<>>
          THEN Finish(t, c, Outcome(skills, p2.diagnostics, Take(decisions, c.top_n),
                                    decisions, "refine", c.preliminary, p2.charged,
                                    p2.attempted))
          ELSE IF parsed.normalized[c.task_text] = "" \/ p2.read_budget <= 0
          THEN Finish(t, c, SecondPassThenFallback(
                            p2,
                            SecondPassReturn(SecondPassStart(skills, p2.read_budget), <<>>,
                                             c.top_n),
                            c.preliminary, c.top_n))
          ELSE Continue(t, skills,
                        [pc |-> "second", task_text |-> c.task_text, top_n |-> c.top_n,
                         preliminary |-> c.preliminary, k |-> 1, p2 |-> p2,
                         candidates |-> candidates,
                         st |-> [SecondPassStart(skills, p2.read_budget)
                                   EXCEPT !.stats.ranked_candidates = Len(candidates)]],
                        threads.file_reads)

\* The second pass in thread t reaches its next skill.
SecondPassCheck(t) ==
    LET c == threads.call[t]
    IN /\ c.pc = "second"
       /\ c.k <= Len(c.candidates)
       /\ IF c.st.stopped \/ c.st.read_budget <= 0
          THEN Continue(t, skills,
                        [c EXCEPT !.k = @ + 1,
                                  !.st = SecondPassStep([c.st EXCEPT !.skills = skills],
                                                        c.candidates, c.candidates[c.k],
                                                        parsed.normalized[c.task_text],
                                                        unreadable)],
                        threads.file_reads)
          ELSE Continue(t, skills,
                        [c EXCEPT !.pc = "second_load"]
                        @@ [observed |-> ObserveFlag(skills, c.candidates[c.k])],
                        threads.file_reads)

\* The rest of _load_skill_details and of the turn of the second pass, for
\* the flag that was seen.
SecondPassLoadStep(t) ==
    LET c == threads.call[t]
    IN /\ c.pc = "second_load"
       /\ LET i == c.candidates[c.k]
              ld == _load_skill_details([skills EXCEPT ![i].details_loaded = c.observed],
                                        i, unreadable)
          IN Continue(t, IF ld.read THEN ld.skills ELSE skills,
                      [pc |-> "second", task_text |-> c.task_text, top_n |-> c.top_n,
                       preliminary |-> c.preliminary, k |-> c.k + 1, p2 |-> c.p2,
                       candidates |-> c.candidates,
                       st |-> SecondPassLoad(c.st, i, ld, parsed.normalized[c.task_text])],
                      IF ld.loaded_now
                      THEN [threads.file_reads EXCEPT ![i] = @ + 1]
                      ELSE threads.file_reads)

\* The second pass in thread t is over: its decisions, or the fallback.
SecondPassEnd(t) ==
    LET c == threads.call[t]
    IN /\ c.pc = "second"
       /\ c.k > Len(c.candidates)
       /\ Finish(t, c, SecondPassThenFallback(c.p2,
                                           SecondPassSort([c.st EXCEPT !.skills = skills], c.top_n),
                                           c.preliminary, c.top_n))

ConcNext ==
    \E t \in Threads :
       \/ \E task_text \in corpus.asks : Begin(t, task_text, MaxTopN)
       \/ Phase2Check(t)
       \/ Phase2LoadStep(t)
       \/ Phase2End(t)
       \/ SecondPassCheck(t)
       \/ SecondPassLoadStep(t)
       \/ SecondPassEnd(t)

ConcSpec == ConcInit /\ [][ConcNext]_vars

(***************************************************************************)
(* Properties                                                              *)
(***************************************************************************)
\* The skills of the registry whose details are loaded.
Loaded(registry) == {i \in DOMAIN registry : registry[i].details_loaded}

\* What the caller sees of a decision list: identifier and score, in order.
Returned(registry, decisions) ==
    [k \in DOMAIN decisions |->
        <<registry[decisions[k].skill].identifier, decisions[k].score>>]

\* C1: after every schedule() call, detailed_reads_used counts the reads of
\* that call alone and is at most max_detailed_reads, whether Phase 2 or the
\* second pass spent the budget.
C1_ReadsWithinBudget ==
    last.op = "schedule" =>
       /\ last_schedule_diagnostics.detailed_reads_used = Cardinality(last.charged)
       /\ last_schedule_diagnostics.detailed_reads_used <= max_detailed_reads
       /\ last_schedule_diagnostics.max_detailed_reads = max_detailed_reads

\* C1, its case: the second pass has spent the whole budget of a call, on an
\* engine whose earlier calls have loaded details too.
C1_BudgetSpentBySecondPass ==
    /\ last.op = "schedule"
    /\ last.phase \in {"second_pass", "fallback"}
    /\ last_schedule_diagnostics.detailed_reads_used = max_detailed_reads
    /\ last_schedule_diagnostics.second_pass_unread_due_to_limit > 0
    /\ Cardinality(Loaded(skills)) > max_detailed_reads

\* C2: between two load() calls a skill whose details_loaded flag is set keeps
\* the flag and its triggers, and a schedule() call that visits it charges no
\* read for it: the reads a call counts are of skills whose flag was unset.
C2_DetailsLoadedOnce ==
    [][last'.op # "load" =>
          /\ \A i \in DOMAIN skills :
                skills[i].details_loaded =>
                   /\ i \in DOMAIN skills'
                   /\ skills'[i].details_loaded
                   /\ skills'[i].triggers = skills[i].triggers
                   /\ i \notin last'.charged
          /\ last'.op = "schedule" =>
                last_schedule_diagnostics'.detailed_reads_used
                   = Cardinality(last'.charged \ Loaded(skills))]_vars

\* C2, its case: a call has visited, with budget left, a skill whose triggers an
\* earlier call had loaded, and has charged no read.
C2_VisitedLoadedSkill ==
    /\ last.op = "schedule"
    /\ last.phase = "refine"
    /\ ~last.auto_loaded
    /\ last.charged = {}
    /\ last_schedule_diagnostics.detailed_reads_used = 0
    /\ \E k \in DOMAIN last.full :
          /\ skills[last.full[k].skill].details_loaded
          /\ skills[last.full[k].skill].triggers # <<>>
          /\ \E r \in DOMAIN last.full[k].reasons :
                last.full[k].reasons[r][1] = "trigger match"

\* C3: two successive schedule() calls with the same task text and top_n, with
\* no load() and no change of the file system between them, return the same
\* identifiers with the same scores in the same order.
C3_RepeatedCallsAgree ==
    [][(/\ last.op = "schedule"
        /\ last'.op = "schedule"
        /\ last'.task_text = last.task_text
        /\ last'.top_n = last.top_n
        /\ unreadable' = unreadable)
       => Returned(skills', last'.decisions) = Returned(skills, last.decisions)]_vars

\* C4: Phase 2 emits every Phase 1 candidate.  A candidate reached with the
\* budget spent and its details never loaded is counted as skipped, and
\* sampled unless the sample is full, and keeps its Phase 1 score and
\* reasons; with top_n at least the number of candidates all of them are
\* returned.
C4_EveryCandidateEmitted ==
    (last.op = "schedule" /\ last.phase = "refine") =>
       /\ Len(last.full) = Len(last.preliminary)
       /\ {last.full[k].skill : k \in DOMAIN last.full}
             = {last.preliminary[k].skill : k \in DOMAIN last.preliminary}
       /\ \A c \in DOMAIN last.preliminary :
             ~skills[last.preliminary[c].skill].details_loaded =>
                /\ \E k \in DOMAIN last.full : last.full[k] = last.preliminary[c]
                /\ \/ Len(last_schedule_diagnostics.skipped_skill_ids) = SAMPLE_CAP
                   \/ \E k \in DOMAIN last_schedule_diagnostics.skipped_skill_ids :
                         last_schedule_diagnostics.skipped_skill_ids[k]
                            = skills[last.preliminary[c].skill].identifier
       /\ last_schedule_diagnostics.initial_unread_due_to_limit
             = Cardinality({c \in DOMAIN last.preliminary :
                               ~skills[last.preliminary[c].skill].details_loaded})
       /\ last.top_n >= Len(last.preliminary) => last.decisions = last.full

\* C4, its case: four candidates, two of them skipped, all four returned.
C4_SkippedStillReturned ==
    /\ last.op = "schedule"
    /\ last.phase = "refine"
    /\ Len(last.preliminary) = 4
    /\ last_schedule_diagnostics.initial_unread_due_to_limit = 2
    /\ Len(last_schedule_diagnostics.skipped_skill_ids) = 2
    /\ Len(last.decisions) = 4

\* C5: on a registry as load() leaves it, with every descriptor readable, a
\* schedule() call whose Phase 1 yields k > max_detailed_reads candidates leaves
\* exactly max_detailed_reads skills with details loaded, detailed_reads_used =
\* max_detailed_reads, initial_unread_due_to_limit = k - max_detailed_reads and
\* guardrail_triggered true.
C5_BudgetCutsPhase2 ==
    [][(/\ last'.op = "schedule"
        /\ unreadable = {}
        /\ Loaded(skills) = {}
        /\ Len(last'.preliminary) > max_detailed_reads)
       => /\ Cardinality(Loaded(skills')) = max_detailed_reads
          /\ last_schedule_diagnostics'.detailed_reads_used = max_detailed_reads
          /\ last_schedule_diagnostics'.initial_unread_due_to_limit
                = Len(last'.preliminary) - max_detailed_reads
          /\ guardrail_triggered(last_schedule_diagnostics')]_vars

\* C5, its case: the call that loads the four deploy skills itself, with a
\* budget of two.
C5_FourCandidatesBudgetTwo ==
    /\ last.op = "schedule"
    /\ last.auto_loaded
    /\ unreadable = {}
    /\ max_detailed_reads = 2
    /\ Len(last.preliminary) = 4
    /\ Cardinality(Loaded(skills)) = 2
    /\ last_schedule_diagnostics.initial_unread_due_to_limit = 2

\* C6: when no skill scores above zero in Phases 1-3 for a non-blank task text,
\* every returned decision has score 1 and the single fallback reason, its
\* skill holds one of the default identifiers as an alias, and the decisions
\* follow the order of the default list: each can be given a default its skill
\* holds, later decisions later defaults.
C6_FallbackOnly ==
    (last.op = "schedule" /\ last.phase = "fallback") =>
       /\ \A k \in DOMAIN last.decisions :
             /\ last.decisions[k].score = 1
             /\ last.decisions[k].reasons = <<<<"fallback default for ambiguous task">>>>
             /\ skills[last.decisions[k].skill].aliases
                   \cap {"planning-implementation", "planning", "managing-environment"} # {}
       /\ \E pos \in [DOMAIN last.decisions -> 1..3] :
             /\ \A k \in DOMAIN last.decisions :
                   <<"planning-implementation", "planning", "managing-environment">>[pos[k]]
                      \in skills[last.decisions[k].skill].aliases
             /\ \A k, l \in DOMAIN last.decisions : k < l => pos[k] < pos[l]

\* C6, its case: noise routed on a registry of fallback skills.
C6_NoiseGetsDefaults ==
    /\ last.op = "schedule"
    /\ last.phase = "fallback"
    /\ last.task_text = "random text without known keywords"
    /\ Returned(skills, last.decisions)
          = <<<<"planning-implementation", 1>>, <<"managing-environment", 1>>>>

\* C7: the fallback selects, for each default identifier in list order, the
\* first skill of the registry that holds it as an alias and that no earlier
\* default has selected: when the first holder is already selected, the next
\* holder not yet selected is selected instead.
C7_NextHolderSelected ==
    (last.op = "schedule" /\ last.phase = "fallback") =>
       LET defaults == <<"planning-implementation", "planning", "managing-environment">>
           pick[k \in 0..Len(defaults)] ==
              IF k = 0 THEN <<>>
              ELSE LET free == {i \in DOMAIN skills :
                                  /\ defaults[k] \in skills[i].aliases
                                  /\ i \notin Range(pick[k - 1])}
                   IN IF free = {} THEN pick[k - 1]
                      ELSE Append(pick[k - 1], CHOOSE i \in free : \A j \in free : i <= j)
       IN [k \in DOMAIN last.full |-> last.full[k].skill] = pick[Len(defaults)]

\* Scores non-increasing, and equal scores in ascending identifier order.
\* C8 as stated: every decision list schedule() returns, the fallback's too, is
\* ordered so.
C8_EveryListOrdered ==
    last.op = "schedule" =>
       \A k, l \in DOMAIN last.decisions :
          k < l =>
             \/ last.decisions[k].score > last.decisions[l].score
             \/ /\ last.decisions[k].score = last.decisions[l].score
                /\ StrLeq(skills[last.decisions[k].skill].identifier,
                          skills[last.decisions[l].skill].identifier)

\* C8, amended: in every decision list schedule() returns the scores are
\* non-increasing; in the lists of Phase 2 and of the second pass decisions of
\* equal score are in ascending identifier order.
C8_RankedListsOrdered ==
    last.op = "schedule" =>
       \A k, l \in DOMAIN last.decisions :
          k < l =>
             /\ last.decisions[k].score >= last.decisions[l].score
             /\ (/\ last.phase \in {"refine", "second_pass"}
                 /\ last.decisions[k].score = last.decisions[l].score)
                => StrLeq(skills[last.decisions[k].skill].identifier,
                          skills[last.decisions[l].skill].identifier)

\* C8, its case: a Phase 2 list with two skills of different identifiers and
\* equal score.
C8_TieInRankedList ==
    /\ last.op = "schedule"
    /\ last.phase = "refine"
    /\ \E k, l \in DOMAIN last.decisions :
          /\ k < l
          /\ last.decisions[k].score = last.decisions[l].score
          /\ skills[last.decisions[k].skill].identifier
                # skills[last.decisions[l].skill].identifier

\* C9: schedule() with an empty or whitespace-only task text returns no
\* decision, replaces the diagnostics by a zero snapshot with the budget of the
\* engine, and on a loaded engine leaves every skill as it was.
C9_BlankQuery ==
    [][(last'.op = "schedule" /\ last'.task_text \in {"", "  "})
       => /\ last'.decisions = <<>>
          /\ last_schedule_diagnostics'
                = [max_detailed_reads |-> max_detailed_reads,
                   detailed_reads_used |-> 0,
                   initial_ranked_candidates |-> 0,
                   initial_unread_due_to_limit |-> 0,
                   second_pass_ranked_candidates |-> 0,
                   second_pass_unread_due_to_limit |-> 0,
                   skipped_skill_ids |-> <<>>,
                   second_pass_used |-> FALSE]
          /\ ~guardrail_triggered(last_schedule_diagnostics')
          /\ _loaded => skills' = skills]_vars

\* C9, its case: a whitespace-only task text on an engine that has loaded
\* details.
C9_BlankAfterReads ==
    /\ last.op = "schedule"
    /\ last.task_text = "  "
    /\ ~last.auto_loaded
    /\ Loaded(skills) # {}
    /\ last_schedule_diagnostics.detailed_reads_used = 0

\* C10: two load() calls on the same file system return equal LoadReports and
\* leave equal registries and equal route hints: nothing of the earlier call
\* accumulates.
C10_LoadIdempotent ==
    (Len(loads) = 2 /\ loads[1].unreadable = loads[2].unreadable) =>
       /\ loads[1].report = loads[2].report
       /\ loads[1].skills = loads[2].skills
       /\ loads[1].route_hints = loads[2].route_hints

\* C10, its case: a second load() of four skills and two hints.
C10_SecondLoad ==
    /\ Len(loads) = 2
    /\ loads[1].unreadable = loads[2].unreadable
    /\ loads[1].report.total_skills = 4
    /\ loads[1].report.route_hints = 2
    /\ last.op = "load"

\* C11: right after any load(), also one that follows schedule() calls that
\* loaded details, every skill of the registry has details_loaded false and no
\* triggers.
C11_LoadLeavesNoDetails ==
    /\ last.op = "load" =>
          \A i \in DOMAIN skills : ~skills[i].details_loaded /\ skills[i].triggers = <<>>
    /\ \A n \in DOMAIN loads :
          \A i \in DOMAIN loads[n].skills :
             ~loads[n].skills[i].details_loaded /\ loads[n].skills[i].triggers = <<>>

\* C11, its case: a second load() on an engine whose schedule() calls have
\* read details.
C11_LoadAfterReads ==
    /\ last.op = "load"
    /\ Len(loads) = 2
    /\ skills # <<>>
    /\ last_schedule_diagnostics.detailed_reads_used > 0

\* The pattern [a-z0-9]+(-[a-z0-9]+)*.
IdentifierPattern(s) ==
    /\ s # ""
    /\ \A i \in 1..Len(s) : Ch(s, i) \in Lower \cup Digit \cup {"-"}
    /\ Ch(s, 1) # "-"
    /\ Ch(s, Len(s)) # "-"
    /\ \A i \in 1..(Len(s) - 1) : ~(Ch(s, i) = "-" /\ Ch(s, i + 1) = "-")

\* C12: after any load() every identifier of the registry matches
\* [a-z0-9]+(-[a-z0-9]+)*; a descriptor whose identifier would not match is
\* not in the registry.
C12_IdentifiersMatchPattern ==
    \A i \in DOMAIN skills : IdentifierPattern(skills[i].identifier)

\* C13: after any load() no two skills of the registry share an identifier,
\* and no two returned decisions do.
C13_IdentifiersUnique ==
    /\ \A i, j \in DOMAIN skills :
          skills[i].identifier = skills[j].identifier => i = j
    /\ \A k, l \in DOMAIN last.decisions :
          skills[last.decisions[k].skill].identifier
             = skills[last.decisions[l].skill].identifier => k = l

\* C14: in every diagnostics snapshot guardrail_triggered is true exactly when
\* initial_unread_due_to_limit + second_pass_unread_due_to_limit > 0; a
\* candidate skipped by Phase 2 or by the second pass sets it.
C14_GuardrailIffSkipped ==
    /\ guardrail_triggered(last_schedule_diagnostics)
          <=> (last_schedule_diagnostics.initial_unread_due_to_limit
                  + last_schedule_diagnostics.second_pass_unread_due_to_limit > 0)
    /\ last_schedule_diagnostics.skipped_skill_ids # <<>>
          => guardrail_triggered(last_schedule_diagnostics)
    /\ (/\ last.op = "schedule"
        /\ \E c \in DOMAIN last.preliminary :
              ~skills[last.preliminary[c].skill].details_loaded)
          => guardrail_triggered(last_schedule_diagnostics)

\* C14, its case: the second pass alone has skipped skills.
C14_SkippedBySecondPassOnly ==
    /\ last.op = "schedule"
    /\ last_schedule_diagnostics.initial_unread_due_to_limit = 0
    /\ last_schedule_diagnostics.second_pass_unread_due_to_limit > 0
    /\ guardrail_triggered(last_schedule_diagnostics)

BudgetAt(k) ==
    max_detailed_reads
       - Cardinality({j \in 1..(k - 1) : last.preliminary[j].skill \in last.charged})

\* The triggers of the skill whose normalized form, of length >= 2, is in the
\* normalized task text.
Hits(skill) ==
    SelectSeq(skill.triggers,
              LAMBDA trigger :
                 /\ Len(parsed.normalized[trigger]) >= 2
                 /\ IsSubstring(parsed.normalized[trigger],
                                parsed.normalized[last.task_text]))

\* C16: a Phase 1 candidate that Phase 2 visits with budget left and that has
\* h >= 1 matching triggers ends with its Phase 1 score + min(75, 25 * h) and
\* the added reason "trigger match: <first hit>"; with h = 0 its score and
\* reasons are those of Phase 1.
C16_TriggerBonus ==
    (last.op = "schedule" /\ last.phase = "refine") =>
       \A k \in DOMAIN last.preliminary :
          BudgetAt(k) > 0 =>
             LET c == last.preliminary[k]
                 hits == Hits(skills[c.skill])
                 h == Len(hits)
             IN \E d \in Range(last.full) :
                   /\ d.skill = c.skill
                   /\ d.score = c.score + (IF 25 * h < 75 THEN 25 * h ELSE 75)
                   /\ d.reasons = IF h = 0 THEN c.reasons
                                  ELSE Append(c.reasons, <<"trigger match", hits[1]>>)

\* C16, its case: a trigger written in ideographs matches.
C16_IdeographTriggerMatches ==
    /\ last.op = "schedule"
    /\ last.phase = "refine"
    /\ \E k \in DOMAIN last.preliminary :
          /\ BudgetAt(k) > 0
          /\ Hits(skills[last.preliminary[k].skill]) = <<"#$%&^~|">>
          /\ \E d \in Range(last.full) :
                /\ d.skill = last.preliminary[k].skill
                /\ d.score = last.preliminary[k].score + 25

\* The run was given a whitelist that is not empty after normalization, and
\* a context that is empty or outside it.
CliContextInvalid ==
    LET whitelist == _parse_intent_whitelist(cli.args.intent_whitelist)
        normalized_context == _normalize_intent(cli.args.context)
    IN /\ whitelist # <<>>
       /\ normalized_context \notin {w \in Range(whitelist) : normalized_context # ""}

\* The run ended with exit code 2, the invalid_intent payload and no routing.
CliRejected ==
    /\ cli.exit = 2
    /\ "error" \in DOMAIN cli.printed
    /\ cli.printed["error"].code = "invalid_intent"
    /\ {"decisions", "schedule_diagnostics"} \cap DOMAIN cli.printed = {}
    /\ cli.schedule_calls = 0

\* C17 as stated: whenever the whitelist is not empty after normalization and
\* the context is empty or outside it, the run ends with exit code 2 and the
\* invalid_intent payload, and schedule() is not invoked.
C17_InvalidContextExitsTwo == (cli.ran /\ CliContextInvalid) => CliRejected

\* C17: in a run without --status, a whitelist that is not empty after
\* normalization and a context that is empty or outside it end the run with
\* exit code 2 and the invalid_intent payload, with no decisions, no
\* schedule_diagnostics and no call of schedule(); a run with --status exits
\* 0 with the status report whatever the whitelist, and never routes either.
C17_InvalidContextExitsTwoUnlessStatus ==
    cli.ran =>
        /\ (CliContextInvalid /\ ~cli.args.status) => CliRejected
        /\ cli.args.status =>
              /\ cli.exit = 0
              /\ cli.schedule_calls = 0
              /\ cli.printed["mode"] = "status"
        /\ cli.schedule_calls = 1 => ~CliContextInvalid

\* C17 witness: a run without --status whose context normalizes to a value
\* outside a whitelist of two intents, for a task that would have been routed.
C17_ContextOutsideWhitelist ==
    /\ cli.ran
    /\ ~cli.args.status
    /\ cli.args.task = "install packages"
    /\ _normalize_intent(cli.args.context) = "deploy-to-prod"
    /\ Len(_parse_intent_whitelist(cli.args.intent_whitelist)) = 2
    /\ cli.exit = 2

\* The bundle of the call loads, the skill index loads, and the bundle lists
\* an identifier that the index does not hold.
BundleListsMissingSkill ==
    LET repo_exists == compiled.args.skills_repo \in corpus.dirs
        bundle == compile_env.loaded.bundle[repo_exists][compiled.args.bundle_name]
        skill_index == compile_env.loaded.skill_index[compiled.args.skills_repo]
    IN /\ bundle.raised = ""
       /\ skill_index.raised = ""
       /\ \E k \in DOMAIN bundle.value.skills :
             ~DictHas(skill_index.value, bundle.value.skills[k])

\* The call raised the ValueError of the spec validation, and the message
\* names every listed identifier that the index does not hold.
RaisedMissingSkill ==
    LET bundle == compile_env.loaded.bundle[TRUE][compiled.args.bundle_name].value
        skill_index == compile_env.loaded.skill_index[compiled.args.skills_repo].value
    IN /\ compiled.raised = "ValueError"
       /\ compiled.result.message[1] = "Spec validation failed"
       /\ \A k \in DOMAIN bundle.skills :
             DictHas(skill_index, bundle.skills[k])
             \/ \E e \in DOMAIN compiled.result.message[2] :
                   compiled.result.message[2][e]
                      = <<"references missing skill", bundle.name, bundle.skills[k]>>

\* The adapter list of the call is accepted and the base policy file parses.
CompileReachesValidation ==
    /\ _normalize_adapters(compiled.args.adapters).raised = ""
    /\ compile_env.loaded.base_policy[compiled.args.skills_repo \in corpus.dirs].raised = ""

\* C18 as stated: whenever the bundle lists a skill identifier that is absent
\* from the skill index, compile_bundle_for_agents raises a ValueError that
\* mentions the missing skill, and no output file is written.
C18_MissingSkillRaises ==
    (compiled.ran /\ BundleListsMissingSkill) =>
        /\ RaisedMissingSkill
        /\ compiled.written = {}

\* C18: whenever the bundle lists a skill identifier that is absent from the
\* skill index, compile_bundle_for_agents raises ValueError and writes no
\* output file for any adapter; the ValueError is the one of the spec
\* validation, naming the missing skill, when the adapter list is accepted
\* and the base policy file parses, and otherwise it is the ValueError of
\* the adapter list or of the policy file, raised before the validation.
C18_MissingSkillRaisesAfterInputs ==
    (compiled.ran /\ BundleListsMissingSkill) =>
        /\ compiled.raised = "ValueError"
        /\ compiled.written = {}
        /\ compiled.returned = <<>>
        /\ CompileReachesValidation => RaisedMissingSkill
        /\ ~CompileReachesValidation =>
              compiled.result.message[1]
                 \in {"Unsupported adapter", "No adapters provided.",
                      "Invalid YAML key/value line"}

\* C18 witness: the bundle of the test, planning-implementation in the index
\* and missing-skill not, compiled for all three adapters with every
\* template in place: the call raised and the output root is empty.
C18_BrokenBundleForAllAdapters ==
    /\ compiled.ran
    /\ compiled.args.bundle_name = "broken"
    /\ compiled.args.adapters = <<"all">>
    /\ compile_env.templates = "complete"
    /\ compiled.raised = "ValueError"
    /\ compiled.result.message[1] = "Spec validation failed"
    /\ DictHas(compile_env.loaded.skill_index[compiled.args.skills_repo].value,
               "planning-implementation")
    /\ compiled.result.message[2] = <<<<"references missing skill", "broken", "missing-skill">>>>
    /\ compiled.written = {}

\* The skills whose descriptor the call of thread t has read in full and
\* charged to its budget, so far.
ChargedBy(t) ==
    IF threads.call[t].pc \in {"idle"} THEN {}
    ELSE IF threads.call[t].pc = "done" THEN threads.call[t].charged
    ELSE threads.call[t].st.charged

\* C19: when the two schedule() calls are serialized (no step of one call is
\* taken while the other call is in progress) the descriptor of each skill is
\* read in full at most once, and the two calls never both charge the same
\* skill; only interleaved calls can read a descriptor twice.  Interleaved or
\* not, the full reads of the engine are the reads charged by the two calls.
C19_SerializedReadsOnce ==
    /\ ~threads.interleaved =>
          /\ \A i \in DOMAIN threads.file_reads : threads.file_reads[i] <= 1
          /\ ChargedBy(1) \cap ChargedBy(2) = {}
    /\ \A i \in DOMAIN threads.file_reads :
          threads.file_reads[i] = Cardinality({t \in Threads : i \in ChargedBy(t)})

\* C19 witness: both calls have returned, and one skill's descriptor was
\* read in full by each of them, each call counting the read in its own
\* detailed_reads_used.
C19_BothCallsReadSameSkill ==
    /\ \A t \in Threads : threads.call[t].pc = "done"
    /\ threads.interleaved
    /\ \E i \in DOMAIN threads.file_reads :
          /\ threads.file_reads[i] = 2
          /\ i \in ChargedBy(1) \cap ChargedBy(2)
    /\ \A t \in Threads :
          threads.call[t].diagnostics.detailed_reads_used
             = Cardinality(threads.call[t].charged)

\* What a schedule() step of a non-blank query leaves, against the second
\* pass run on the registry of before the step with the whole budget.
FallbackChain(registry, call, d, after) ==
    LET candidates == {call.preliminary[k].skill : k \in DOMAIN call.preliminary}
        sp == _trigger_only_second_pass(registry, parsed.normalized[call.task_text],
                                        parsed.tokens[call.task_text], call.top_n,
                                        d.max_detailed_reads, unreadable)
    IN /\ d.second_pass_used <=> call.preliminary = <<>>
       /\ call.preliminary # <<>> =>
             /\ call.phase = "refine"
             /\ \A k \in DOMAIN call.decisions : call.decisions[k].skill \in candidates
             /\ {call.full[k].skill : k \in DOMAIN call.full} = candidates
             /\ d.second_pass_ranked_candidates = 0
             /\ d.second_pass_unread_due_to_limit = 0
       /\ call.preliminary = <<>> =>
             /\ d.initial_ranked_candidates = 0
             /\ d.initial_unread_due_to_limit = 0
             /\ call.phase = (IF sp.returned # <<>> THEN "second_pass" ELSE "fallback")
             /\ call.decisions = (IF sp.returned # <<>> THEN sp.returned
                                  ELSE _fallback_decisions(sp.skills, call.top_n))
             /\ d.second_pass_ranked_candidates = sp.stats.ranked_candidates
             /\ d.second_pass_unread_due_to_limit = sp.stats.unread_due_to_limit
             /\ d.detailed_reads_used = sp.stats.reads_used
             /\ after = sp.skills

\* C20: for a non-blank query the second pass is used if and only if Phase 1
\* gave no candidate, and it is then the second pass run with the whole read
\* budget on the registry as the call found it; the fallback decisions are
\* returned only when that second pass returned no decision.  When Phase 1
\* gave a candidate, the decisions are Phase 1 candidates only,
\* second_pass_used is false and the second-pass counters are 0.
C20_FallbackChain ==
    [][(last'.op = "schedule" /\ parsed.stripped[last'.task_text] # "") =>
          FallbackChain(IF _loaded THEN skills
                        ELSE load(skills, route_hints, corpus, unreadable).skills,
                        last', last_schedule_diagnostics', skills')]_vars

\* C20 witness: a query for which Phase 1 gave nothing, the second pass spent
\* the whole budget on descriptors without a matching trigger, and the
\* defaults were returned.
C20_SecondPassThenDefaults ==
    /\ last.op = "schedule"
    /\ parsed.stripped[last.task_text] # ""
    /\ last.preliminary = <<>>
    /\ last_schedule_diagnostics.second_pass_used
    /\ last_schedule_diagnostics.detailed_reads_used = max_detailed_reads
    /\ max_detailed_reads > 1
    /\ last.phase = "fallback"
    /\ last.decisions # <<>>

\* The registry a schedule() call starts from: the registry of the engine, or
\* what load() leaves when the call loads first.
RegistryBefore ==
    IF _loaded THEN skills ELSE load(skills, route_hints, corpus, unreadable).skills

\* The Phase 1 score of C21 for a skill and a task text, with the hints hints.
ClaimedPhase1Score(skill, task_text, hints) ==
    (IF \E alias \in skill.aliases :
           Len(alias) >= 3 /\ IsSubstring(alias, parsed.lowered[task_text])
     THEN 80 ELSE 0)
    + (IF 4 * Cardinality(parsed.tokens[task_text] \cap skill.keywords) < 40
       THEN 4 * Cardinality(parsed.tokens[task_text] \cap skill.keywords) ELSE 40)
    + (IF \E h \in DOMAIN hints :
             /\ parsed.tokens[task_text] \cap hints[h].keywords # {}
             /\ \E r \in DOMAIN hints[h].skill_refs :
                   _ref_matches_skill(hints[h].skill_refs[r], skill)
       THEN 35 ELSE 0)

\* C21: in every schedule() call with a non-blank task text the Phase 1 score
\* of a skill is 80 for an alias of length >= 3 in the lowercased query, plus
\* min(40, 4 * |query tokens that are keywords|), plus 35 once when some route
\* hint whose keywords meet the query tokens has a reference matching the
\* skill; the Phase 1 candidates are exactly the skills of score > 0, each
\* once, with that score.
C21_Phase1Score ==
    [][(last'.op = "schedule" /\ last'.phase # "blank") =>
          /\ {last'.preliminary[k].skill : k \in DOMAIN last'.preliminary}
                = {i \in DOMAIN RegistryBefore :
                      ClaimedPhase1Score(RegistryBefore[i], last'.task_text,
                                         route_hints') > 0}
          /\ \A k, l \in DOMAIN last'.preliminary :
                last'.preliminary[k].skill = last'.preliminary[l].skill => k = l
          /\ \A k \in DOMAIN last'.preliminary :
                last'.preliminary[k].score
                   = ClaimedPhase1Score(RegistryBefore[last'.preliminary[k].skill],
                                        last'.task_text, route_hints')]_vars

\* C21, its case: a skill that two route hints match for the query, scored
\* with one hint bonus, next to a skill of score 0 that is no candidate.
C21_TwoHintsOneBonus ==
    /\ last.op = "schedule"
    /\ \E k \in DOMAIN last.preliminary :
          /\ Cardinality({h \in DOMAIN route_hints :
                            /\ parsed.tokens[last.task_text] \cap route_hints[h].keywords # {}
                            /\ \E r \in DOMAIN route_hints[h].skill_refs :
                                  _ref_matches_skill(route_hints[h].skill_refs[r],
                                                     skills[last.preliminary[k].skill])})
                >= 2
          /\ Cardinality({r \in DOMAIN last.preliminary[k].reasons :
                            last.preliminary[k].reasons[r][1] = "global rule"}) = 1
    /\ Len(last.preliminary) < Len(skills)

\* A trigger of the skill matches the task text: its normalized form has at
\* least two characters and is part of the normalized task text.
HasTriggerHit(skill, task_text) ==
    \E t \in DOMAIN skill.triggers :
       /\ Len(parsed.normalized[skill.triggers[t]]) >= 2
       /\ IsSubstring(parsed.normalized[skill.triggers[t]], parsed.normalized[task_text])

\* C22: every decision of the second pass, returned or cut by top_n, is for a
\* skill with at least one trigger matching the query; a skill without a
\* trigger hit is never emitted by the second pass, also when the pass has
\* loaded its details and charged the read.
C22_SecondPassNeedsTrigger ==
    (last.op = "schedule" /\ last.phase = "second_pass") =>
       /\ \A k \in DOMAIN last.full : HasTriggerHit(skills[last.full[k].skill], last.task_text)
       /\ \A k \in DOMAIN last.decisions :
             HasTriggerHit(skills[last.decisions[k].skill], last.task_text)
       /\ \A i \in last.charged :
             ~HasTriggerHit(skills[i], last.task_text) =>
                \A k \in DOMAIN last.full : last.full[k].skill # i

\* C22, its case: the second pass has returned a decision and has read, and
\* charged, a skill of positive second-pass rank without a trigger hit that
\* it does not return.
C22_ChargedButNotEmitted ==
    /\ last.op = "schedule"
    /\ last.phase = "second_pass"
    /\ last.decisions # <<>>
    /\ \E i \in last.charged :
          /\ ~HasTriggerHit(skills[i], last.task_text)
          /\ skills[i].triggers # <<>>
          /\ SecondPassRank(skills[i], parsed.normalized[last.task_text],
                            parsed.tokens[last.task_text]) > 0
          /\ \A k \in DOMAIN last.full : last.full[k].skill # i


\* C23 helpers.  The order in which the second pass of the call just made
\* walks the registry, and the number of skills it visits: the walk ends
\* behind the skill whose read spends the last unit of the budget.
RankedBefore(task_text) ==
    _rank_second_pass_candidates(RegistryBefore, parsed.normalized[task_text],
                                 parsed.tokens[task_text])

VisitedCount(ranked, charged, budget) ==
    LET spent(k) == Cardinality({j \in 1..k : ranked[j] \in charged})
        cuts == {k \in 0..Len(ranked) : spent(k) >= budget}
    IN IF cuts = {} THEN Len(ranked) ELSE CHOOSE k \in cuts : \A c \in cuts : k <= c

SecondPassWalk(ranked, visited) ==
    /\ last_schedule_diagnostics'.second_pass_ranked_candidates = Len(skills')
    /\ Len(ranked) = Len(skills')
    /\ \A j \in 1..visited : skills'[ranked[j]].details_loaded
    /\ \A j \in (visited + 1)..Len(ranked) :
          /\ skills'[ranked[j]] = RegistryBefore[ranked[j]]
          /\ ranked[j] \notin last'.attempted
          /\ last'.phase = "second_pass" =>
                \A k \in DOMAIN last'.full : last'.full[k].skill # ranked[j]
    /\ last_schedule_diagnostics'.second_pass_unread_due_to_limit =
          IF visited < Len(ranked)
          THEN Cardinality({j \in 1..Len(ranked) : ~skills'[ranked[j]].details_loaded})
          ELSE 0

\* C23 as stated: whenever Phase 1 finds no candidate, the second pass walks
\* every skill of the registry in rank order up to the first skill reached
\* with the budget at 0, reads or evaluates no skill behind it, and reports
\* as second_pass_unread_due_to_limit the number of ranked skills without
\* details at that moment, 0 when the walk reaches the end of the list.
C23_SecondPassWalksAll ==
    [][(last'.op = "schedule" /\ last'.phase \in {"second_pass", "fallback"}) =>
          LET ranked == RankedBefore(last'.task_text)
          IN SecondPassWalk(ranked, VisitedCount(ranked, last'.charged, max_detailed_reads))]_vars

\* C23, amended: the same, for a query whose normalized form is not empty.
\* A query of symbols only has an empty normalized form, and the second pass
\* returns at once: nothing is ranked and nothing is read.
C23_SecondPassWalksAllForWords ==
    [][(/\ last'.op = "schedule"
        /\ last'.phase \in {"second_pass", "fallback"}
        /\ parsed.normalized[last'.task_text] # "") =>
          LET ranked == RankedBefore(last'.task_text)
          IN SecondPassWalk(ranked, VisitedCount(ranked, last'.charged, max_detailed_reads))]_vars

\* C23, its case: the second pass has stopped in front of a skill, with the
\* budget spent and ranked skills left without details.
C23_StoppedBeforeEnd ==
    /\ last.op = "schedule"
    /\ last.phase \in {"second_pass", "fallback"}
    /\ Cardinality(last.charged) = max_detailed_reads
    /\ last_schedule_diagnostics.second_pass_unread_due_to_limit > 0
    /\ last_schedule_diagnostics.second_pass_unread_due_to_limit
          < last_schedule_diagnostics.second_pass_ranked_candidates


\* C24: after every schedule call the sample of skipped identifiers holds at
\* most 8 entries, and each of them is the identifier of a skill of the
\* registry whose details are not loaded.
C24_SampleCappedAndUnread ==
    last.op = "schedule" =>
       /\ Len(last_schedule_diagnostics.skipped_skill_ids) <= 8
       /\ \A k \in DOMAIN last_schedule_diagnostics.skipped_skill_ids :
             \E i \in DOMAIN skills :
                /\ skills[i].identifier = last_schedule_diagnostics.skipped_skill_ids[k]
                /\ ~skills[i].details_loaded

\* C24, its case: Phase 2 has skipped more than 8 candidates and the sample
\* holds 8 of them.
C24_MoreSkippedThanSampled ==
    /\ last.op = "schedule"
    /\ last.phase = "refine"
    /\ last_schedule_diagnostics.initial_unread_due_to_limit > 8
    /\ Len(last_schedule_diagnostics.skipped_skill_ids) = 8


\* C25: a schedule call returns at most top_n decisions, the first top_n of
\* the full ordered list of the phase that answered; the registry after the
\* call, details loaded included, is the one the same call leaves with
\* top_n = 0; and Phase 2 walks every Phase 1 candidate.
C25_TopNOnlyTruncates ==
    [][last'.op = "schedule" =>
          /\ Len(last'.decisions) <= last'.top_n
          /\ last'.decisions =
                [k \in 1..Min(last'.top_n, Len(last'.full)) |-> last'.full[k]]
          /\ skills' = schedule(RegistryBefore, route_hints', max_detailed_reads,
                                unreadable, last'.task_text, 0).skills
          /\ last'.phase = "refine" =>
                {last'.full[k].skill : k \in DOMAIN last'.full}
                   = {last'.preliminary[k].skill : k \in DOMAIN last'.preliminary}]_vars

\* C25, its case: a call with top_n = 2 that cuts a longer Phase 2 list and
\* has read the details of a candidate it does not return.
C25_ReadBeyondTopN ==
    /\ last.op = "schedule"
    /\ last.phase = "refine"
    /\ last.top_n = 2
    /\ Len(last.full) > 2
    /\ Len(last.decisions) = 2
    /\ \E i \in last.charged : \A k \in DOMAIN last.decisions : last.decisions[k].skill # i


\* C26: the engine has completed a load exactly when _loaded is set; a
\* schedule call on an engine that has not loaded runs load() first, for a
\* blank query too; a schedule call on a loaded engine runs no load, and every
\* skill whose details were loaded before the call is the same after it.
C26_AutoLoadOnce ==
    [][/\ _loaded' <=> loads' # <<>>
       /\ last'.op = "schedule" =>
             IF _loaded
             THEN /\ loads' = loads
                  /\ route_hints' = route_hints
                  /\ Len(skills') = Len(skills)
                  /\ \A i \in DOMAIN skills :
                        skills[i].details_loaded => skills'[i] = skills[i]
             ELSE /\ loads = <<>>
                  /\ _loaded'
                  /\ loads' = <<LoadRecord(load(skills, route_hints, corpus, unreadable),
                                           unreadable)>>
                  /\ route_hints' = load(skills, route_hints, corpus, unreadable).route_hints
                  /\ Len(skills') = Len(load(skills, route_hints, corpus, unreadable).skills)]_vars

\* C26, its case: a schedule call on an engine loaded once, which did not
\* load again and found the details that an earlier call had read.
C26_DetailsFromEarlierCall ==
    /\ last.op = "schedule"
    /\ ~last.auto_loaded
    /\ Len(loads) = 1
    /\ \E i \in DOMAIN skills :
          /\ skills[i].details_loaded
          /\ skills[i].triggers # <<>>
          /\ i \notin last.attempted


\* C27: in a schedule call the number of descriptor files on which a full
\* read is attempted, failed attempts included, is at most max_detailed_reads.
C27_AttemptsWithinBudget ==
    last.op = "schedule" => Cardinality(last.attempted) <= max_detailed_reads


\* C28 helper: the candidate at position k of the Phase 1 list of the last
\* call is left without details, i.e. it was skipped due to the limit.
SkippedAt(k) == ~skills[last.preliminary[k].skill].details_loaded

\* C28: after a schedule call answered by Phase 2, the Phase 1 list is in
\* order of descending score and, at equal score, ascending identifier; every
\* candidate on which a read was made in the call stands before every
\* candidate skipped due to the limit; skipped candidates exist only when the
\* budget is spent; and initial_unread_due_to_limit counts them.
C28_ReadsPrecedeSkips ==
    (last.op = "schedule" /\ last.phase = "refine") =>
       /\ \A k, l \in DOMAIN last.preliminary :
             k < l =>
                \/ last.preliminary[k].score > last.preliminary[l].score
                \/ /\ last.preliminary[k].score = last.preliminary[l].score
                   /\ StrLeq(skills[last.preliminary[k].skill].identifier,
                             skills[last.preliminary[l].skill].identifier)
       /\ \A k, l \in DOMAIN last.preliminary :
             (SkippedAt(k) /\ last.preliminary[l].skill \in last.attempted) => l < k
       /\ (\E k \in DOMAIN last.preliminary : SkippedAt(k))
             => Cardinality(last.charged) = max_detailed_reads
       /\ last_schedule_diagnostics.initial_unread_due_to_limit
             = Cardinality({k \in DOMAIN last.preliminary : SkippedAt(k)})

\* C28, its case: Phase 2 has read several candidates and skipped several.
C28_ReadSomeSkippedSome ==
    /\ last.op = "schedule"
    /\ last.phase = "refine"
    /\ Cardinality(last.charged) >= 2
    /\ last_schedule_diagnostics.initial_unread_due_to_limit >= 2


\* C29: after a schedule call every decision of the full list, and so every
\* returned decision, has a score from 1 to 230; a Phase 1 score is from 4 to
\* 155 and a Phase 2 score from 4 to 230, at most 75 above the Phase 1 score
\* of its candidate; a second-pass score is 25, 50 or 75; a fallback score is
\* 1, and score 1 occurs in no other phase.
C29_ScoreBounds ==
    last.op = "schedule" =>
       /\ \A k \in DOMAIN last.decisions :
             \E l \in DOMAIN last.full : last.full[l] = last.decisions[k]
       /\ \A k \in DOMAIN last.preliminary : last.preliminary[k].score \in 4..155
       /\ \A k \in DOMAIN last.full :
             /\ last.full[k].score \in 1..230
             /\ last.phase = "refine" =>
                   /\ last.full[k].score \in 4..230
                   /\ \E l \in DOMAIN last.preliminary :
                         /\ last.preliminary[l].skill = last.full[k].skill
                         /\ last.full[k].score - last.preliminary[l].score \in 0..75
             /\ last.phase = "second_pass" => last.full[k].score \in {25, 50, 75}
             /\ last.full[k].score = 1 <=> last.phase = "fallback"

\* C29, its case: a Phase 2 decision of score 230, for a skill with more
\* than 10 keywords in the query and more than 3 matching triggers.
C29_EveryCapReached ==
    /\ last.op = "schedule"
    /\ last.phase = "refine"
    /\ \E k \in DOMAIN last.decisions :
          /\ last.decisions[k].score = 230
          /\ Cardinality(parsed.tokens[last.task_text]
                            \cap skills[last.decisions[k].skill].keywords) > 10
          /\ Len(skills[last.decisions[k].skill].triggers) > 3


\* C30 helpers.  The number of candidates of the last call that Phase 2
\* visits with budget left: the walk spends the budget at the candidate whose
\* read is the last one charged.
Phase2Visited ==
    VisitedCount([k \in DOMAIN last.preliminary |-> last.preliminary[k].skill],
                 last.charged, max_detailed_reads)

\* The identifiers of the candidates skipped due to the limit, in the order
\* of the Phase 1 list.
SkippedIdentifiers ==
    LET at == SelectSeq([k \in DOMAIN last.preliminary |-> k], SkippedAt)
    IN [k \in DOMAIN at |-> skills[last.preliminary[at[k]].skill].identifier]

\* C30: after a schedule call answered by Phase 2, every candidate visited
\* after the budget has reached 0 has a decision with exactly its Phase 1
\* score and reasons, whether or not its details are loaded and a trigger of
\* it matches the query; initial_unread_due_to_limit and the sample hold the
\* candidates left without details only, the sample the first 8 of them.
C30_SkippedKeepsPhase1Score ==
    (last.op = "schedule" /\ last.phase = "refine") =>
       /\ \A l \in DOMAIN last.preliminary :
             l > Phase2Visited =>
                \E k \in DOMAIN last.full : last.full[k] = last.preliminary[l]
       /\ last_schedule_diagnostics.initial_unread_due_to_limit = Len(SkippedIdentifiers)
       /\ last_schedule_diagnostics.skipped_skill_ids
             = Take(SkippedIdentifiers, 8)

\* C30, its case: a candidate visited after the budget has reached 0 whose
\* details an earlier call has loaded and that has a trigger matching the
\* query; other candidates are skipped and sampled in the same call.
C30_LoadedCandidateBehindBudget ==
    /\ last.op = "schedule"
    /\ last.phase = "refine"
    /\ last_schedule_diagnostics.initial_unread_due_to_limit > 0
    /\ \E l \in DOMAIN last.preliminary :
          /\ l > Phase2Visited
          /\ skills[last.preliminary[l].skill].details_loaded
          /\ HasTriggerHit(skills[last.preliminary[l].skill], last.task_text)
          /\ \A k \in DOMAIN last_schedule_diagnostics.skipped_skill_ids :
                last_schedule_diagnostics.skipped_skill_ids[k]
                   # skills[last.preliminary[l].skill].identifier

=============================================================================
